---- MODULE Spec2Model ----
(***************************************************************************)
(* The parallel copy engine of copy-image: Copier.CopyFile,                *)
(* Copier.CopyFileWithRetry, Copier.CopyFilesParallel (console mode) and   *)
(* Copier.CopyFilesParallelWithEvents (callback mode), with the file       *)
(* system reduced to the destination directory, one destination file per   *)
(* base name and a readable/unreadable flag per source file.               *)
(*                                                                         *)
(* One batch is modelled.  The main goroutine dispatches one goroutine per *)
(* file and waits on the WaitGroup; each goroutine is a small program      *)
(* counter machine whose steps are the shared-state accesses of the code   *)
(* (context reads, file system calls, atomic adds, channel operations).    *)
(***************************************************************************)
EXTENDS Integers, Sequences, FiniteSets, TLC

\* ------------------------------------------------------------------ bounds
MaxFiles == 2          \* longest file list handed to the scheduler
MaxWorkers == 2        \* largest config.Workers tried
MaxRetriesBound == 1   \* largest config.MaxRetries tried
MaxFaults == 1         \* transient I/O failures the environment may inject
MaxRuns == 2           \* runs of the same batch, one after the other
MaxRerunFiles == 1     \* longest file list of a batch that is run again
MaxStartCalls == 2     \* StartCopy calls the frontend makes (they may overlap)
MaxCancelCalls == 2    \* CancelCopy calls the frontend makes
MaxExtensions == 2     \* longest extension allow-list tried
MaxValidateCalls == 2  \* Validate calls on one Config
RangeSlack == 2        \* how far outside the accepted ranges the settings tried reach
MaxBackoffRetries == 3 \* largest MaxRetries of the CopyFileWithRetry call observed alone
MaxScanCalls == 1      \* ScanFiles calls the frontend makes
MaxUpdateCalls == 1    \* UpdateConfig calls the frontend makes
MaxBatchFiles == 1     \* files the batch of one StartCopy call processes

VARIABLES
    mode,         \* "cli": CopyFilesParallel, "events": CopyFilesParallelWithEvents
    files,        \* the file list: files[i] is the base name (a number) of file i
    srcOK,        \* srcOK[i]: the source of file i can be opened for reading
    config,       \* c.config: Workers, MaxRetries, Overwrite, DryRun
    cancelled,    \* ctx.Done() is closed
    mainPc,       \* position of the scheduler: "dispatch", "wait", "returned"
    next,         \* index of the next file of the dispatch loop
    wg,           \* sync.WaitGroup counter
    semaphore,    \* number of elements in the buffered channel `semaphore`
    successful, failed, skipped, processed,   \* the int32 counters
    failedFiles,  \* the failedFiles slice: <<file, error>> entries
    events,       \* onProgress invocations, in the order they occur
    summary,      \* the CopySummary values returned (none before the return)
    pc,           \* pc[i]: position of the goroutine of file i
    attempt,      \* the loop variable of CopyFileWithRetry
    lastErr,      \* lastErr of CopyFileWithRetry
    result,       \* result[i]: the CopyResult returned by CopyFileWithRetry
    current,      \* current[i]: the value atomic.AddInt32(&processed, 1) returned
    destDir,      \* the destination directory exists
    dest,         \* dest[n]: content of the destination file with base name n
    srcOpen, dstOpen,   \* goroutines holding an open source / destination handle
    faults,       \* transient I/O failures injected so far
    held,         \* held[i]: goroutine i has its deferred slot release pending
    \* history variables (observers, never read by the program's steps)
    attempts,     \* attempts[i]: number of CopyFile calls made for file i
    waits,        \* waits[i]: number of backoff waits entered for file i
    wrote,        \* wrote[i]: goroutine i created or wrote its destination file
    skipSeen,     \* skipSeen[i]: the skip condition held when CopyFileWithRetry was called
    cancelEarly,  \* cancel fired before the dispatch loop launched any goroutine
    waitingAtCancel,   \* the goroutines blocked on the semaphore when cancel fired
    firstRunDest,      \* the destination files as the first of two runs left them
    \* the layers around the copy engine (each has a specification of its own)
    app,          \* the App struct and its callers (StartCopy, CancelCopy)
    conf,         \* a Config value under Validate
    scan,         \* a source directory under GetFiles
    retry         \* one CopyFileWithRetry call with its attempts and waits written down

cfgVars == <<mode, files, srcOK, config>>
mainVars == <<mainPc, next, wg, summary>>
countVars == <<successful, failed, skipped, processed, failedFiles, events>>
taskVars == <<pc, attempt, lastErr, result, current>>
fsVars == <<destDir, dest, srcOpen, dstOpen, faults>>
histVars == <<attempts, waits, wrote, skipSeen, cancelEarly>>
engineVars == <<cfgVars, mainVars, countVars, taskVars, fsVars, histVars,
                cancelled, semaphore, held>>
obsVars == <<waitingAtCancel, firstRunDest>>
outerVars == <<obsVars, app, conf, scan, retry>>
vars == <<cfgVars, mainVars, countVars, taskVars, fsVars, histVars,
          cancelled, semaphore, held, outerVars>>

\* ------------------------------------------------------------------ values
Tasks == 1..Len(files)
NameIds == 1..MaxFiles

\* The file lists GetFiles hands to the scheduler: the entries of one
\* directory, so the base names are distinct; file i has base name i.
FileLists == { [i \in 1..n |-> i] : n \in 0..MaxFiles }

\* The file lists a caller of the exported schedulers can pass: any paths,
\* two of which may have the same base name.
AnyFileLists == UNION { [1..n -> NameIds] : n \in 0..MaxFiles }

\* File content: <<kind, src>>; "none": no file, "old": content that is no
\* source of the batch, "empty"/"partial"/"full": created by goroutine src
\* and holding none / a proper prefix / all of its source content.
NoFile == <<"none", 0>>
OldFile == <<"old", 0>>

\* CopyResult (FileName is files[i])
ResultSuccess == [Success |-> TRUE, Skipped |-> FALSE, Error |-> "nil"]
ResultSkipped == [Success |-> FALSE, Skipped |-> TRUE, Error |-> "nil"]
ResultFailed(e) == [Success |-> FALSE, Skipped |-> FALSE, Error |-> e]

\* utils.FileExists(destPath)
FileExists(n) == dest[n] # NoFile

\* faulty variant: one unreadable source makes every probe of the batch fail
IsFileLocked_Any(i) == \E j \in Tasks : ~srcOK[j]

\* utils.IsFileLocked(sourcePath): the read-only open fails
IsFileLocked(i) == ~srcOK[i]

\* faulty variant: the wrapper never takes its skip exit
ShouldSkip_Never(n) == FALSE

\* the skip condition of CopyFileWithRetry
ShouldSkip(n) == FileExists(n) /\ ~config.Overwrite

\* faulty variant: an existing destination is kept whatever the flag says
CopyFileSkips_IgnoresFlag(n, overwrite) == FileExists(n)

\* the skip condition of CopyFile, called with overwrite = c.config.Overwrite
CopyFileSkips(n, overwrite) == FileExists(n) /\ ~overwrite

\* faulty variant: `attempt < MaxRetries`, one attempt short
LoopCondition_OffByOne(att) == att < config.MaxRetries

\* the loop condition of CopyFileWithRetry
LoopCondition(att) == att <= config.MaxRetries

\* the condition that guards the backoff wait
BackoffCondition(att) == att < config.MaxRetries

\* faulty variant: an unbuffered-by-count gate, the send always proceeds
SlotFree_Unbounded == TRUE

\* the send on the buffered channel can proceed
SlotFree == semaphore < config.Workers

\* the dispatch loop's select: `break` leaves the select statement only, so
\* the loop goes on to launch the goroutine whether or not ctx is done
DispatchStops == FALSE

\* ctx of the batch: context.Background() in console mode, never done
CtxDone == mode = "events" /\ cancelled

\* positions inside one CopyFile call after its entry check
InCopyFile == {"cf_exists", "cf_locked", "cf_mkdir", "cf_open", "cf_create", "cf_copy", "cf_sync"}

\* the max_retries values a configuration file can carry
LoadedRetries == (0 - 1)..MaxRetriesBound

\* what io.Copy leaves in the file it was handed: the source content after
\* whatever the file held at its offset (nothing, os.Create truncated it)
AfterCopy(c, i) == IF c = <<"empty", i>> THEN <<"full", i>> ELSE <<"appended", i>>

\* the status tag handed to onProgress
StatusOf(r) == IF r.Success THEN "success" ELSE IF r.Skipped THEN "skipped" ELSE "failed"

\* ------------------------------------------------------------------ Init
\* nothing observed yet
ObsIdle == waitingAtCancel = {} /\ firstRunDest = <<>>

\* the callers of StartCopy
Starters == 1..MaxStartCalls

\* config.DefaultConfig(): no source, no destination (the fields the App
\* layer reads or Validate changes)
DefaultConfig ==
    [Source |-> "", Destination |-> "", Groups |-> 0, Workers |-> 10, Overwrite |-> FALSE]

\* the configuration a config.yaml with both paths set yields at startup
LoadedConfig == [DefaultConfig EXCEPT !.Source = "src", !.Destination = "dst"]

\* the App struct after NewApp() and startup() on the configuration c:
\* copier and cancelFunc nil (0), no context made, no event emitted, no call
\* under way.  Config values live in app.cfgs and are referred to by their
\* position, as the *config.Config pointers of the code refer to them.
AppStartOn(c) ==
    [cancelFunc |-> 0,                      \* a.cancelFunc: 0 is nil, k the cancel of context k
     copier |-> FALSE,                      \* a.copier != nil
     cfgs |-> <<c>>,                        \* the Config values allocated so far
     config |-> 1,                          \* a.config
     copierCfg |-> 0,                       \* a.copier.config (0: no copier)
     ctxDone |-> {},                        \* the contexts whose Done is closed
     nextCtx |-> 1,                         \* the next context WithCancel makes
     emitted |-> <<>>,                      \* runtime.EventsEmit calls, in order
     spc |-> [s \in Starters |-> "idle"],   \* position of each StartCopy call
     sctx |-> [s \in Starters |-> 0],       \* ctx of each StartCopy call
     sarg |-> [s \in Starters |-> FALSE],   \* the overwrite argument of each StartCopy call
     scfg |-> [s \in Starters |-> 0],       \* the Config the batch of each call runs on
     sused |-> [s \in Starters |-> {}],     \* the Overwrite values the batch's tasks read
     sfiles |-> [s \in Starters |-> 0],     \* the files the batch has processed
     sret |-> [s \in Starters |-> <<>>],    \* <<Success, Message>> of the CopyResult returned
     scans |-> 0,                           \* ScanFiles calls made so far
     updates |-> 0,                         \* UpdateConfig calls made so far
     uarg |-> <<>>,                         \* the argument of the last UpdateConfig call
     uret |-> "none",                       \* what the last UpdateConfig call returned
     cpc |-> "idle",                        \* position of the CancelCopy call
     cancelCalls |-> 0,                     \* CancelCopy calls made so far
     panicked |-> FALSE]                    \* a nil cancel function was invoked

\* started without a configuration file
AppStart == AppStartOn(DefaultConfig)

AppIdle == app = AppStart

\* no Config under validation
ConfIdle == conf = <<>>

\* no directory under enumeration
ScanIdle == scan = <<>>

\* no CopyFileWithRetry call under observation
RetryIdle == retry = <<>>

\* the copy engine at rest: no batch was handed to it
EngineIdle ==
    /\ mode = "events"
    /\ files = <<>>
    /\ srcOK = <<>>
    /\ config = [Workers |-> 1, MaxRetries |-> 0, Overwrite |-> FALSE, DryRun |-> FALSE]
    /\ cancelled = FALSE
    /\ mainPc = "dispatch"
    /\ next = 1
    /\ wg = 0
    /\ semaphore = 0
    /\ successful = 0 /\ failed = 0 /\ skipped = 0 /\ processed = 0
    /\ failedFiles = <<>>
    /\ events = <<>>
    /\ summary = <<>>
    /\ pc = <<>> /\ attempt = <<>> /\ lastErr = <<>> /\ result = <<>> /\ current = <<>>
    /\ dest = [n \in NameIds |-> NoFile]
    /\ destDir = FALSE
    /\ srcOpen = {} /\ dstOpen = {}
    /\ faults = 0
    /\ attempts = <<>> /\ waits = <<>> /\ wrote = <<>> /\ skipSeen = <<>>
    /\ cancelEarly = FALSE
    /\ held = <<>>

\* a batch runs with the surrounding layers at rest
OuterIdle == ObsIdle /\ AppIdle /\ ConfIdle /\ ScanIdle /\ RetryIdle

\* a batch over one of the file lists `lists`, before its scheduler runs
BatchInit(lists) ==
    /\ mode \in {"cli", "events"}
    /\ files \in lists
    /\ srcOK \in [1..Len(files) -> BOOLEAN]
    /\ config \in [Workers : 1..MaxWorkers, MaxRetries : 0..MaxRetriesBound,
                   Overwrite : BOOLEAN, DryRun : BOOLEAN]
    /\ cancelled = FALSE
    /\ mainPc = "dispatch"
    /\ next = 1
    /\ wg = 0
    /\ semaphore = 0
    /\ successful = 0 /\ failed = 0 /\ skipped = 0 /\ processed = 0
    /\ failedFiles = <<>>
    /\ events = <<>>
    /\ summary = <<>>
    /\ pc = [i \in 1..Len(files) |-> "idle"]
    /\ attempt = [i \in 1..Len(files) |-> 0]
    /\ lastErr = [i \in 1..Len(files) |-> "nil"]
    /\ result = <<>>
    /\ current = [i \in 1..Len(files) |-> 0]
    /\ dest \in [NameIds -> {NoFile, OldFile}]
    /\ \A n \in NameIds : dest[n] # NoFile => \E i \in 1..Len(files) : files[i] = n
    /\ destDir = (\E n \in NameIds : dest[n] # NoFile)
    /\ srcOpen = {} /\ dstOpen = {}
    /\ faults = 0
    /\ attempts = [i \in 1..Len(files) |-> 0]
    /\ waits = [i \in 1..Len(files) |-> 0]
    /\ wrote = [i \in 1..Len(files) |-> FALSE]
    /\ skipSeen = [i \in 1..Len(files) |-> FALSE]
    /\ cancelEarly = FALSE
    /\ held = [i \in 1..Len(files) |-> FALSE]
    /\ OuterIdle

Init == BatchInit(FileLists)

\* ------------------------------------------------------------------ helpers
\* CopyFileWithRetry returns r to the goroutine of file i
ReturnResult(i, r) ==
    /\ result' = (i :> r) @@ result
    /\ pc' = [pc EXCEPT ![i] = "count"]

\* faulty variant: an error return leaves the destination handle open
CopyFileReturns_LeakOnError(i, e) ==
    /\ srcOpen' = srcOpen \ {i}
    /\ dstOpen' = IF e = "nil" THEN dstOpen \ {i} ELSE dstOpen
    /\ IF e = "nil"
       THEN /\ ReturnResult(i, ResultSuccess)
            /\ UNCHANGED <<lastErr, attempt, waits>>
       ELSE /\ lastErr' = [lastErr EXCEPT ![i] = e]
            /\ IF BackoffCondition(attempt[i])
               THEN /\ pc' = [pc EXCEPT ![i] = "backoff"]
                    /\ waits' = [waits EXCEPT ![i] = @ + 1]
                    /\ UNCHANGED <<attempt, result>>
               ELSE /\ attempt' = [attempt EXCEPT ![i] = @ + 1]
                    /\ UNCHANGED waits
                    /\ IF LoopCondition(attempt[i] + 1)
                       THEN /\ pc' = [pc EXCEPT ![i] = "r_loop"]
                            /\ UNCHANGED result
                       ELSE ReturnResult(i, ResultFailed(e))

\* CopyFile returns e to CopyFileWithRetry: the deferred Close calls release
\* both handles; nil ends the loop with success, an error is kept in lastErr
\* and leads to the backoff wait or, after the last attempt, out of the loop
CopyFileReturns(i, e) ==
    /\ srcOpen' = srcOpen \ {i}
    /\ dstOpen' = dstOpen \ {i}
    /\ IF e = "nil"
       THEN /\ ReturnResult(i, ResultSuccess)
            /\ UNCHANGED <<lastErr, attempt, waits>>
       ELSE /\ lastErr' = [lastErr EXCEPT ![i] = e]
            /\ IF BackoffCondition(attempt[i])
               THEN /\ pc' = [pc EXCEPT ![i] = "backoff"]
                    /\ waits' = [waits EXCEPT ![i] = @ + 1]
                    /\ UNCHANGED <<attempt, result>>
               ELSE /\ attempt' = [attempt EXCEPT ![i] = @ + 1]
                    /\ UNCHANGED waits
                    /\ IF LoopCondition(attempt[i] + 1)
                       THEN /\ pc' = [pc EXCEPT ![i] = "r_loop"]
                            /\ UNCHANGED result
                       ELSE ReturnResult(i, ResultFailed(e))

\* CopyFile goes on to its next statement
CopyFileGoes(i, p) ==
    /\ pc' = [pc EXCEPT ![i] = p]
    /\ UNCHANGED <<attempt, lastErr, result, waits>>

\* an I/O call may fail while the environment has failures left to inject
MayFail == faults < MaxFaults

\* ------------------------------------------------------------------ scheduler
\* one iteration of `for _, file := range files`: the cancellation select,
\* wg.Add(1) and the go statement
Dispatch ==
    /\ mainPc = "dispatch"
    /\ next <= Len(files)
    /\ IF CtxDone /\ DispatchStops
       THEN /\ mainPc' = "wait"
            /\ UNCHANGED <<next, wg, pc>>
       ELSE /\ wg' = wg + 1
            /\ pc' = [pc EXCEPT ![next] = "acquire"]
            /\ next' = next + 1
            /\ UNCHANGED mainPc
    /\ UNCHANGED <<cfgVars, outerVars, summary, countVars, attempt, lastErr, result, current,
                   fsVars, histVars, cancelled, semaphore, held>>

\* the range loop is exhausted
DispatchEnd ==
    /\ mainPc = "dispatch"
    /\ next > Len(files)
    /\ mainPc' = "wait"
    /\ UNCHANGED <<cfgVars, outerVars, next, wg, summary, countVars, taskVars, fsVars, histVars,
                   cancelled, semaphore, held>>

\* faulty variant: the summary is built without waiting for the goroutines
WaitAndReturn_Early ==
    /\ mainPc = "wait"
    /\ summary' = Append(summary, [TotalFiles |-> Len(files),
                                   Successful |-> successful,
                                   Failed |-> failed,
                                   Skipped |-> skipped,
                                   FailedFiles |-> failedFiles])
    /\ mainPc' = "returned"
    /\ UNCHANGED <<cfgVars, outerVars, next, wg, countVars, taskVars, fsVars, histVars,
                   cancelled, semaphore, held>>

\* faulty variant: TotalFiles is the number of files that were counted
WaitAndReturn_CountedTotal ==
    /\ mainPc = "wait"
    /\ wg = 0
    /\ summary' = Append(summary, [TotalFiles |-> successful + failed + skipped,
                                   Successful |-> successful,
                                   Failed |-> failed,
                                   Skipped |-> skipped,
                                   FailedFiles |-> failedFiles])
    /\ mainPc' = "returned"
    /\ UNCHANGED <<cfgVars, outerVars, next, wg, countVars, taskVars, fsVars, histVars,
                   cancelled, semaphore, held>>

\* wg.Wait() returns and the CopySummary is built and returned
WaitAndReturn ==
    /\ mainPc = "wait"
    /\ wg = 0
    /\ summary' = Append(summary, [TotalFiles |-> Len(files),
                                   Successful |-> successful,
                                   Failed |-> failed,
                                   Skipped |-> skipped,
                                   FailedFiles |-> failedFiles])
    /\ mainPc' = "returned"
    /\ UNCHANGED <<cfgVars, outerVars, next, wg, countVars, taskVars, fsVars, histVars,
                   cancelled, semaphore, held>>

\* the caller fires the cancel function of the batch's context
Cancel ==
    /\ mode = "events"
    /\ ~cancelled
    /\ mainPc # "returned"
    /\ cancelled' = TRUE
    /\ cancelEarly' = (mainPc = "dispatch" /\ next = 1)
    /\ UNCHANGED <<cfgVars, outerVars, mainVars, countVars, taskVars, fsVars,
                   attempts, waits, wrote, skipSeen, semaphore, held>>

\* App.startup takes the configuration LoadFromFile parsed from config.yaml
\* as it is, without Validate: max_retries may be negative
LoadFromFile ==
    /\ mainPc = "dispatch"
    /\ next = 1
    /\ ~cancelled
    /\ \E r \in LoadedRetries :
            /\ r # config.MaxRetries
            /\ config' = [config EXCEPT !.MaxRetries = r]
    /\ UNCHANGED <<mode, files, srcOK, outerVars, mainVars, countVars, taskVars, fsVars,
                   histVars, cancelled, semaphore, held>>

\* the caller runs the same batch again (the program is started again, or
\* StartCopy is called again): new locals, a new context, the same file
\* list and settings, the file system as the previous run left it
Rerun ==
    /\ mainPc = "returned"
    /\ Len(summary) < MaxRuns
    /\ firstRunDest' = IF Len(summary) = 1 THEN dest ELSE firstRunDest
    /\ cancelled' = FALSE
    /\ mainPc' = "dispatch"
    /\ next' = 1
    /\ successful' = 0 /\ failed' = 0 /\ skipped' = 0 /\ processed' = 0
    /\ failedFiles' = <<>>
    /\ events' = <<>>
    /\ pc' = [i \in Tasks |-> "idle"]
    /\ attempt' = [i \in Tasks |-> 0]
    /\ lastErr' = [i \in Tasks |-> "nil"]
    /\ result' = <<>>
    /\ current' = [i \in Tasks |-> 0]
    /\ attempts' = [i \in Tasks |-> 0]
    /\ waits' = [i \in Tasks |-> 0]
    /\ wrote' = [i \in Tasks |-> FALSE]
    /\ skipSeen' = [i \in Tasks |-> FALSE]
    /\ cancelEarly' = FALSE
    /\ UNCHANGED <<cfgVars, wg, summary, fsVars, semaphore, held,
                   waitingAtCancel, app, conf, scan, retry>>

\* the same cancel, with the goroutines it finds blocked on the full
\* semaphore written down
CancelObserved ==
    /\ mode = "events"
    /\ ~cancelled
    /\ mainPc # "returned"
    /\ cancelled' = TRUE
    /\ cancelEarly' = (mainPc = "dispatch" /\ next = 1)
    /\ waitingAtCancel' = {i \in Tasks : pc[i] = "acquire" /\ ~SlotFree}
    /\ UNCHANGED <<cfgVars, mainVars, countVars, taskVars, fsVars,
                   attempts, waits, wrote, skipSeen, semaphore, held,
                   firstRunDest, app, conf, scan, retry>>

\* ------------------------------------------------------------------ GetFiles
\* Strings are sequences of characters; a character is a letter (or the
\* dot) and its case.
Chr(l, up) == [l |-> l, up |-> up]
Dot == Chr(".", FALSE)

\* strings.ToLower
ToLower(str) == [k \in DOMAIN str |-> [str[k] EXCEPT !.up = FALSE]]

\* the two strings differ in the case of their letters at most
EqualFold(a, b) == Len(a) = Len(b) /\ \A k \in 1..Len(a) : a[k].l = b[k].l

\* filepath.Ext: the suffix that starts at the last dot, "" without a dot
Ext(name) ==
    LET dots == {k \in 1..Len(name) : name[k] = Dot}
    IN  IF dots = {} THEN <<>>
        ELSE SubSeq(name, CHOOSE k \in dots : \A m \in dots : m <= k, Len(name))

\* the entry names a source directory may hold, in the order of os.ReadDir:
\* "a", "a.J", "a.j", "a.j.P", "a.p"
EntryNames ==
    << <<Chr("a", FALSE)>>,
       <<Chr("a", FALSE), Dot, Chr("j", TRUE)>>,
       <<Chr("a", FALSE), Dot, Chr("j", FALSE)>>,
       <<Chr("a", FALSE), Dot, Chr("j", FALSE), Dot, Chr("p", TRUE)>>,
       <<Chr("a", FALSE), Dot, Chr("p", FALSE)>> >>

\* what each name is in the directory
EntryKinds == {"absent", "file", "dir"}

\* the strings an allow-list may hold: ".j", ".J", ".p", and "j" without its dot
AllowStrings ==
    { <<Dot, Chr("j", FALSE)>>, <<Dot, Chr("j", TRUE)>>, <<Dot, Chr("p", FALSE)>>,
      <<Chr("j", FALSE)>> }

\* the allow-lists tried
AllowLists == UNION { [1..n -> AllowStrings] : n \in 0..MaxExtensions }

\* Config.HasExtensionFilter
HasExtensionFilter == Len(scan.extensions) > 0

\* faulty variant: the allow-list entries are compared as they are written
IsExtensionAllowed_CaseSensitive(ext) ==
    IF ~HasExtensionFilter THEN TRUE
    ELSE \E k \in 1..Len(scan.extensions) : scan.extensions[k] = ToLower(ext)

\* Config.IsExtensionAllowed
IsExtensionAllowed(ext) ==
    IF ~HasExtensionFilter THEN TRUE
    ELSE \E k \in 1..Len(scan.extensions) : ToLower(scan.extensions[k]) = ToLower(ext)

\* GetFiles: the DirExists check and os.ReadDir
GetFiles_ReadDir ==
    /\ scan.pc = "call"
    /\ IF ~scan.sourceExists
       THEN scan' = [scan EXCEPT !.pc = "returned", !.err = "source directory does not exist"]
       ELSE IF scan.readFails
       THEN scan' = [scan EXCEPT !.pc = "returned", !.err = "failed to read source directory"]
       ELSE scan' = [scan EXCEPT !.pc = "loop", !.i = 1]
    /\ UNCHANGED <<engineVars, obsVars, app, conf, retry>>

\* GetFiles: one iteration of `for _, entry := range entries`
GetFiles_Entry ==
    /\ scan.pc = "loop"
    /\ scan.i <= Len(EntryNames)
    /\ LET kind == scan.entries[scan.i]
           fileName == EntryNames[scan.i]
           ext == ToLower(Ext(fileName))
       IN  IF kind = "absent" \/ kind = "dir"
           THEN scan' = [scan EXCEPT !.i = @ + 1]
           ELSE IF HasExtensionFilter /\ ~IsExtensionAllowed(ext)
           THEN scan' = [scan EXCEPT !.i = @ + 1]
           ELSE scan' = [scan EXCEPT !.i = @ + 1, !.files = Append(@, scan.i)]
    /\ UNCHANGED <<engineVars, obsVars, app, conf, retry>>

\* GetFiles: `return files, nil`
GetFiles_Return ==
    /\ scan.pc = "loop"
    /\ scan.i > Len(EntryNames)
    /\ scan' = [scan EXCEPT !.pc = "returned", !.err = "nil"]
    /\ UNCHANGED <<engineVars, obsVars, app, conf, retry>>

\* ------------------------------------------------------------------ Validate
\* the worker counts and retry counts a Config may hold before validation
WorkersTried == (1 - RangeSlack)..(50 + RangeSlack)
RetriesTried == (0 - RangeSlack)..RangeSlack

\* faulty variant: the upper clamp of Workers is missing
Validate_NoUpperClamp ==
    /\ conf # <<>>
    /\ Len(conf.calls) < MaxValidateCalls
    /\ IF conf.Groups = 0 /\ conf.Source = ""
       THEN conf' = [conf EXCEPT !.calls = Append(@,
                        [err |-> "source path is required",
                         Workers |-> conf.Workers, MaxRetries |-> conf.MaxRetries])]
       ELSE IF conf.Groups = 0 /\ conf.Destination = ""
       THEN conf' = [conf EXCEPT !.calls = Append(@,
                        [err |-> "destination path is required",
                         Workers |-> conf.Workers, MaxRetries |-> conf.MaxRetries])]
       ELSE LET w == IF conf.Workers < 1 THEN 1 ELSE conf.Workers
                r == IF conf.MaxRetries < 0 THEN 0 ELSE conf.MaxRetries
            IN  conf' = [conf EXCEPT !.Workers = w, !.MaxRetries = r,
                            !.calls = Append(@, [err |-> "nil", Workers |-> w, MaxRetries |-> r])]
    /\ UNCHANGED <<engineVars, obsVars, app, scan, retry>>

\* Config.Validate; conf.calls records what each call returned and left
\* in the Config
Validate ==
    /\ conf # <<>>
    /\ Len(conf.calls) < MaxValidateCalls
    /\ IF conf.Groups = 0 /\ conf.Source = ""
       THEN conf' = [conf EXCEPT !.calls = Append(@,
                        [err |-> "source path is required",
                         Workers |-> conf.Workers, MaxRetries |-> conf.MaxRetries])]
       ELSE IF conf.Groups = 0 /\ conf.Destination = ""
       THEN conf' = [conf EXCEPT !.calls = Append(@,
                        [err |-> "destination path is required",
                         Workers |-> conf.Workers, MaxRetries |-> conf.MaxRetries])]
       ELSE LET w1 == IF conf.Workers < 1 THEN 1 ELSE conf.Workers
                w == IF w1 > 50 THEN 50 ELSE w1
                r == IF conf.MaxRetries < 0 THEN 0 ELSE conf.MaxRetries
            IN  conf' = [conf EXCEPT !.Workers = w, !.MaxRetries = r,
                            !.calls = Append(@, [err |-> "nil", Workers |-> w, MaxRetries |-> r])]
    /\ UNCHANGED <<engineVars, obsVars, app, scan, retry>>

\* ------------------------------------------------------------------ CopyFileWithRetry alone
\* One call of CopyFileWithRetry with CopyFile reduced to the error it
\* returns and every attempt and every completed wait appended to retry.log:
\* <<"attempt", index, error>> and <<"wait", milliseconds>>.

\* the MaxRetries values the call may run under (0 - 1: an unvalidated file)
RetriesCalled == (0 - 1)..MaxBackoffRetries

\* the errors CopyFile returns for a failed attempt when ctx is not done
CopyFileErrors == {"locked", "copy"}

\* faulty variant: the delay doubles from one wait to the next
BackoffDelay_Exponential(att) == 100 * (2 ^ att)

\* time.Duration(attempt+1) * 100 * time.Millisecond, in milliseconds
BackoffDelay(att) == (att + 1) * 100

\* `attempt++` and the loop condition `attempt <= c.config.MaxRetries`
Retry_NextIteration(r) ==
    IF r.attempt + 1 <= r.MaxRetries
    THEN [r EXCEPT !.attempt = @ + 1, !.pc = "loop"]
    ELSE [r EXCEPT !.attempt = @ + 1, !.pc = "returned",
                   !.result = ResultFailed(r.lastErr)]

\* the call: the skip check, then `for attempt := 0; attempt <= MaxRetries`
Retry_Call ==
    /\ retry # <<>>
    /\ retry.pc = "call"
    /\ IF retry.destExists /\ ~retry.Overwrite
       THEN retry' = [retry EXCEPT !.pc = "returned", !.result = ResultSkipped]
       ELSE IF 0 <= retry.MaxRetries
       THEN retry' = [retry EXCEPT !.pc = "loop"]
       ELSE retry' = [retry EXCEPT !.pc = "returned", !.result = ResultFailed(retry.lastErr)]
    /\ UNCHANGED <<engineVars, obsVars, app, conf, scan>>

\* top of the loop: `if err := ctx.Err(); err != nil { return ... }`
Retry_LoopTop ==
    /\ retry # <<>>
    /\ retry.pc = "loop"
    /\ IF retry.ctxDone
       THEN retry' = [retry EXCEPT !.pc = "returned", !.result = ResultFailed("cancelled")]
       ELSE retry' = [retry EXCEPT !.pc = "copyfile"]
    /\ UNCHANGED <<engineVars, obsVars, app, conf, scan>>

\* faulty variant: lastErr keeps the error of the first failed attempt
Retry_CopyFile_FirstErr ==
    /\ retry # <<>>
    /\ retry.pc = "copyfile"
    /\ \E e \in IF retry.ctxDone THEN {"cancelled"} ELSE CopyFileErrors \cup {"nil"} :
            LET logged == [retry EXCEPT !.log = Append(@, <<"attempt", retry.attempt, e>>)]
                kept == [logged EXCEPT !.lastErr = IF @ = "nil" THEN e ELSE @]
            IN  IF e = "nil"
                THEN retry' = [logged EXCEPT !.pc = "returned", !.result = ResultSuccess]
                ELSE IF retry.attempt < retry.MaxRetries
                THEN retry' = [kept EXCEPT !.pc = "wait"]
                ELSE retry' = Retry_NextIteration(kept)
    /\ UNCHANGED <<engineVars, obsVars, app, conf, scan>>

\* c.CopyFile(ctx, sourcePath, c.config.Overwrite) and what follows its
\* return: success, or `lastErr = err` and the test that guards the wait
Retry_CopyFile ==
    /\ retry # <<>>
    /\ retry.pc = "copyfile"
    /\ \E e \in IF retry.ctxDone THEN {"cancelled"} ELSE CopyFileErrors \cup {"nil"} :
            LET logged == [retry EXCEPT !.log = Append(@, <<"attempt", retry.attempt, e>>)]
                kept == [logged EXCEPT !.lastErr = e]
            IN  IF e = "nil"
                THEN retry' = [logged EXCEPT !.pc = "returned", !.result = ResultSuccess]
                ELSE IF retry.attempt < retry.MaxRetries
                THEN retry' = [kept EXCEPT !.pc = "wait"]
                ELSE retry' = Retry_NextIteration(kept)
    /\ UNCHANGED <<engineVars, obsVars, app, conf, scan>>

\* the select takes `case <-time.After(...)` when the delay has passed
Retry_WaitTimer ==
    /\ retry # <<>>
    /\ retry.pc = "wait"
    /\ retry' = Retry_NextIteration(
                    [retry EXCEPT !.log = Append(@, <<"wait", BackoffDelay(retry.attempt)>>)])
    /\ UNCHANGED <<engineVars, obsVars, app, conf, scan>>

\* the select takes `case <-ctx.Done()` and returns ctx.Err()
Retry_WaitCancelled ==
    /\ retry # <<>>
    /\ retry.pc = "wait"
    /\ retry.ctxDone
    /\ retry' = [retry EXCEPT !.pc = "returned", !.result = ResultFailed("cancelled")]
    /\ UNCHANGED <<engineVars, obsVars, app, conf, scan>>

\* the caller cancels ctx while the call is under way
Retry_Cancel ==
    /\ retry # <<>>
    /\ retry.pc # "returned"
    /\ ~retry.ctxDone
    /\ retry' = [retry EXCEPT !.ctxDone = TRUE]
    /\ UNCHANGED <<engineVars, obsVars, app, conf, scan>>

\* ------------------------------------------------------------------ App
\* no StartCopy call is between its entry and its return
NoStartInFlight == \A s \in Starters : app.spc[s] \in {"idle", "returned"}

\* the batch of StartCopy call s has been handed to the copy engine and has
\* not returned its summary
BatchInFlight(s) == app.spc[s] = "batch"

\* the error Config.Validate returns for c ("nil": none): both paths are
\* required unless c has groups (c.Groups is len(c.Groups))
ValidateError(c) ==
    IF c.Groups = 0 /\ c.Source = "" THEN "source path is required"
    ELSE IF c.Groups = 0 /\ c.Destination = "" THEN "destination path is required"
    ELSE "nil"

\* c as Config.Validate leaves it when it returns nil
Normalized(c) ==
    LET w1 == IF c.Workers < 1 THEN 1 ELSE c.Workers
    IN  [c EXCEPT !.Workers = IF w1 > 50 THEN 50 ELSE w1]

\* the configurations the settings form may send to UpdateConfig
ConfigArgs ==
    { [Source |-> p[1], Destination |-> p[2], Groups |-> g, Workers |-> w,
       Overwrite |-> FALSE] :
        p \in {<<"src", "dst">>, <<"", "dst">>, <<"src", "">>}, g \in 0..1,
        w \in {0, 10, 51} }

\* faulty variant: the configuration is taken before it is validated
UpdateConfig_AssignsFirst ==
    /\ app.updates < MaxUpdateCalls
    /\ \E cfg \in ConfigArgs :
            app' = [app EXCEPT !.updates = @ + 1,
                               !.uarg = cfg,
                               !.uret = IF ValidateError(cfg) # "nil"
                                        THEN "invalid configuration" ELSE "nil",
                               !.cfgs = Append(@, Normalized(cfg)),
                               !.config = Len(app.cfgs) + 1]
    /\ UNCHANGED <<engineVars, obsVars, conf, scan, retry>>

\* UpdateConfig: cfg.Validate(), then a.config = cfg
UpdateConfig ==
    /\ app.updates < MaxUpdateCalls
    /\ \E cfg \in ConfigArgs :
            IF ValidateError(cfg) # "nil"
            THEN app' = [app EXCEPT !.updates = @ + 1,
                                    !.uarg = cfg,
                                    !.uret = "invalid configuration"]
            ELSE app' = [app EXCEPT !.updates = @ + 1,
                                    !.uarg = cfg,
                                    !.uret = "nil",
                                    !.cfgs = Append(@, Normalized(cfg)),
                                    !.config = Len(app.cfgs) + 1]
    /\ UNCHANGED <<engineVars, obsVars, conf, scan, retry>>

\* ScanFiles: the source check, then a.copier = copier.New(a.config): the
\* copier keeps the pointer to the Config that is current now
ScanFiles ==
    /\ app.scans < MaxScanCalls
    /\ IF app.cfgs[app.config].Source = ""
       THEN app' = [app EXCEPT !.scans = @ + 1]
       ELSE app' = [app EXCEPT !.scans = @ + 1,
                               !.copier = TRUE,
                               !.copierCfg = app.config]
    /\ UNCHANGED <<engineVars, obsVars, conf, scan, retry>>

\* faulty variant: the overwrite setting is stored before the copier check
StartCopy_Entry_SetsFirst(s) ==
    /\ app.spc[s] = "idle"
    /\ \E overwrite \in BOOLEAN :
            IF app.copier
            THEN app' = [app EXCEPT !.sarg[s] = overwrite, !.spc[s] = "overwrite"]
            ELSE app' = [app EXCEPT !.cfgs[app.config].Overwrite = overwrite,
                                    !.sret[s] = <<FALSE, "Please scan files first">>,
                                    !.spc[s] = "returned"]
    /\ UNCHANGED <<engineVars, obsVars, conf, scan, retry>>

\* StartCopy(overwrite) is called: `if a.copier == nil { return ... }`
StartCopy_Entry(s) ==
    /\ app.spc[s] = "idle"
    /\ \E overwrite \in BOOLEAN :
            IF app.copier
            THEN app' = [app EXCEPT !.sarg[s] = overwrite, !.spc[s] = "overwrite"]
            ELSE app' = [app EXCEPT !.sret[s] = <<FALSE, "Please scan files first">>,
                                    !.spc[s] = "returned"]
    /\ UNCHANGED <<engineVars, obsVars, conf, scan, retry>>

\* StartCopy: a.config.Overwrite = overwrite
StartCopy_SetOverwrite(s) ==
    /\ app.spc[s] = "overwrite"
    /\ app' = [app EXCEPT !.cfgs[app.config].Overwrite = app.sarg[s],
                          !.spc[s] = "withcancel"]
    /\ UNCHANGED <<engineVars, obsVars, conf, scan, retry>>

\* StartCopy: ctx, cancel := context.WithCancel(a.ctx); a.cancelFunc = cancel;
\* the deferred reset is registered
StartCopy_WithCancel(s) ==
    /\ app.spc[s] = "withcancel"
    /\ app' = [app EXCEPT !.sctx[s] = app.nextCtx,
                          !.nextCtx = app.nextCtx + 1,
                          !.cancelFunc = app.nextCtx,
                          !.spc[s] = "getfiles"]
    /\ UNCHANGED <<engineVars, obsVars, conf, scan, retry>>

\* StartCopy: a.copier.GetFiles() fails, finds nothing, or finds files
StartCopy_GetFiles(s) ==
    /\ app.spc[s] = "getfiles"
    /\ \/ \E r \in {<<FALSE, "Failed to get files">>, <<TRUE, "No files found to copy">>} :
            app' = [app EXCEPT !.sret[s] = r, !.spc[s] = "defer"]
       \/ app' = [app EXCEPT !.spc[s] = "emitstart"]
    /\ UNCHANGED <<engineVars, obsVars, conf, scan, retry>>

\* StartCopy: runtime.EventsEmit(a.ctx, "copy:start", ...), then
\* a.copier.CopyFilesParallelWithEvents is called on the copier of this moment
StartCopy_EmitStart(s) ==
    /\ app.spc[s] = "emitstart"
    /\ app' = [app EXCEPT !.emitted = Append(@, <<"copy:start", s>>),
                          !.scfg[s] = app.copierCfg,
                          !.spc[s] = "batch"]
    /\ UNCHANGED <<engineVars, obsVars, conf, scan, retry>>

\* one file of the batch: CopyFileWithRetry reads c.config.Overwrite, the
\* file is counted and the callback emits copy:progress
StartCopy_FileTask(s) ==
    /\ app.spc[s] = "batch"
    /\ app.sfiles[s] < MaxBatchFiles
    /\ app' = [app EXCEPT !.sused[s] = @ \cup {app.cfgs[app.scfg[s]].Overwrite},
                          !.sfiles[s] = @ + 1,
                          !.emitted = Append(@, <<"copy:progress", s>>)]
    /\ UNCHANGED <<engineVars, obsVars, conf, scan, retry>>

\* StartCopy: CopyFilesParallelWithEvents returns its summary
StartCopy_BatchReturns(s) ==
    /\ app.spc[s] = "batch"
    /\ app' = [app EXCEPT !.spc[s] = "emitcomplete"]
    /\ UNCHANGED <<engineVars, obsVars, conf, scan, retry>>

\* faulty variant: a cancelled batch ends without its copy:complete event
StartCopy_EmitComplete_UnlessCancelled(s) ==
    /\ app.spc[s] = "emitcomplete"
    /\ app' = [app EXCEPT !.emitted = IF app.sctx[s] \in app.ctxDone THEN @
                                      ELSE Append(@, <<"copy:complete", s>>),
                          !.sret[s] = <<TRUE, "Successfully copied">>,
                          !.spc[s] = "defer"]
    /\ UNCHANGED <<engineVars, obsVars, conf, scan, retry>>

\* StartCopy: runtime.EventsEmit(a.ctx, "copy:complete", result); the result
\* is built from the summary (Success is summary.Failed == 0)
StartCopy_EmitComplete(s) ==
    /\ app.spc[s] = "emitcomplete"
    /\ app' = [app EXCEPT !.emitted = Append(@, <<"copy:complete", s>>),
                          !.sret[s] = <<TRUE, "Successfully copied">>,
                          !.spc[s] = "defer"]
    /\ UNCHANGED <<engineVars, obsVars, conf, scan, retry>>

\* StartCopy returns: the deferred `a.cancelFunc = nil`
StartCopy_Defer(s) ==
    /\ app.spc[s] = "defer"
    /\ app' = [app EXCEPT !.cancelFunc = 0,
                          !.spc[s] = "returned"]
    /\ UNCHANGED <<engineVars, obsVars, conf, scan, retry>>

\* faulty variant: the event is emitted whether or not a batch is in flight
CancelCopy_Test_AlwaysEmits ==
    /\ app.cpc = "idle"
    /\ app.cancelCalls < MaxCancelCalls
    /\ app' = [app EXCEPT !.cancelCalls = @ + 1,
                          !.cpc = IF app.cancelFunc # 0 THEN "call" ELSE "emit"]
    /\ UNCHANGED <<engineVars, obsVars, conf, scan, retry>>

\* CancelCopy is called: `if a.cancelFunc != nil`
CancelCopy_Test ==
    /\ app.cpc = "idle"
    /\ app.cancelCalls < MaxCancelCalls
    /\ app' = [app EXCEPT !.cancelCalls = @ + 1,
                          !.cpc = IF app.cancelFunc # 0 THEN "call" ELSE "idle"]
    /\ UNCHANGED <<engineVars, obsVars, conf, scan, retry>>

\* CancelCopy: `a.cancelFunc()` reads the field again and calls what it
\* finds; calling a nil function value panics
CancelCopy_Call ==
    /\ app.cpc = "call"
    /\ IF app.cancelFunc = 0
       THEN app' = [app EXCEPT !.panicked = TRUE, !.cpc = "idle"]
       ELSE app' = [app EXCEPT !.ctxDone = @ \cup {app.cancelFunc}, !.cpc = "emit"]
    /\ UNCHANGED <<engineVars, obsVars, conf, scan, retry>>

\* CancelCopy: runtime.EventsEmit(a.ctx, "copy:cancelled", nil)
CancelCopy_Emit ==
    /\ app.cpc = "emit"
    /\ app' = [app EXCEPT !.emitted = Append(@, <<"copy:cancelled", 0>>),
                          !.cpc = "idle"]
    /\ UNCHANGED <<engineVars, obsVars, conf, scan, retry>>

\* ------------------------------------------------------------------ goroutine
\* `semaphore <- struct{}{}` proceeds; the release is deferred
AcquireSlot(i) ==
    /\ pc[i] = "acquire"
    /\ SlotFree
    /\ semaphore' = semaphore + 1
    /\ held' = [held EXCEPT ![i] = TRUE]
    /\ pc' = [pc EXCEPT ![i] = "work"]
    /\ UNCHANGED <<cfgVars, outerVars, mainVars, countVars, attempt, lastErr, result, current,
                   fsVars, histVars, cancelled>>

\* faulty variant: the abandoning goroutine runs a slot release it never deferred
AbandonOnCancel_Releases(i) ==
    /\ pc[i] = "acquire"
    /\ mode = "events"
    /\ CtxDone
    /\ pc' = [pc EXCEPT ![i] = "done"]
    /\ wg' = wg - 1
    /\ semaphore' = semaphore - 1
    /\ UNCHANGED <<cfgVars, outerVars, mainPc, next, summary, countVars, attempt, lastErr, result,
                   current, fsVars, histVars, cancelled, held>>

\* `case <-ctx.Done(): return` of the acquire select (callback mode only),
\* followed by the deferred wg.Done()
AbandonOnCancel(i) ==
    /\ pc[i] = "acquire"
    /\ mode = "events"
    /\ CtxDone
    /\ pc' = [pc EXCEPT ![i] = "done"]
    /\ wg' = wg - 1
    /\ UNCHANGED <<cfgVars, outerVars, mainPc, next, summary, countVars, attempt, lastErr, result,
                   current, fsVars, histVars, cancelled, semaphore, held>>

\* faulty variant: the DryRun branch honours the skip condition
DryRunCount_Skips(i) ==
    /\ pc[i] = "work"
    /\ config.DryRun
    /\ IF ShouldSkip(files[i])
       THEN skipped' = skipped + 1 /\ UNCHANGED successful
       ELSE successful' = successful + 1 /\ UNCHANGED skipped
    /\ pc' = [pc EXCEPT ![i] = "incr"]
    /\ UNCHANGED <<cfgVars, outerVars, mainVars, failed, processed, failedFiles, events,
                   attempt, lastErr, result, current, fsVars, histVars,
                   cancelled, semaphore, held>>

\* the DryRun branch: the file is counted as successful, nothing is touched
DryRunCount(i) ==
    /\ pc[i] = "work"
    /\ config.DryRun
    /\ successful' = successful + 1
    /\ pc' = [pc EXCEPT ![i] = "incr"]
    /\ UNCHANGED <<cfgVars, outerVars, mainVars, failed, skipped, processed, failedFiles, events,
                   attempt, lastErr, result, current, fsVars, histVars,
                   cancelled, semaphore, held>>

\* CopyFileWithRetry is called: the skip check, then the loop statement's
\* initialisation and first test
RetrySkipCheck(i) ==
    /\ pc[i] = "work"
    /\ ~config.DryRun
    /\ skipSeen' = [skipSeen EXCEPT ![i] = FileExists(files[i]) /\ ~config.Overwrite]
    /\ attempt' = [attempt EXCEPT ![i] = 0]
    /\ IF ShouldSkip(files[i])
       THEN ReturnResult(i, ResultSkipped)
       ELSE IF LoopCondition(0)
       THEN /\ pc' = [pc EXCEPT ![i] = "r_loop"]
            /\ UNCHANGED result
       ELSE ReturnResult(i, ResultFailed(lastErr[i]))
    /\ UNCHANGED <<cfgVars, outerVars, mainVars, countVars, lastErr, current, fsVars,
                   attempts, waits, wrote, cancelEarly, cancelled, semaphore, held>>

\* faulty variant: the cancelled loop reports lastErr instead of ctx.Err()
RetryLoopTop_LastErr(i) ==
    /\ pc[i] = "r_loop"
    /\ IF CtxDone
       THEN /\ ReturnResult(i, ResultFailed(lastErr[i]))
            /\ UNCHANGED attempts
       ELSE /\ pc' = [pc EXCEPT ![i] = "cf_entry"]
            /\ attempts' = [attempts EXCEPT ![i] = @ + 1]
            /\ UNCHANGED result
    /\ UNCHANGED <<cfgVars, outerVars, mainVars, countVars, attempt, lastErr, current, fsVars,
                   waits, wrote, skipSeen, cancelEarly, cancelled, semaphore, held>>

\* top of the retry loop: the ctx.Err() check, then the call of CopyFile
RetryLoopTop(i) ==
    /\ pc[i] = "r_loop"
    /\ IF CtxDone
       THEN /\ ReturnResult(i, ResultFailed("cancelled"))
            /\ UNCHANGED attempts
       ELSE /\ pc' = [pc EXCEPT ![i] = "cf_entry"]
            /\ attempts' = [attempts EXCEPT ![i] = @ + 1]
            /\ UNCHANGED result
    /\ UNCHANGED <<cfgVars, outerVars, mainVars, countVars, attempt, lastErr, current, fsVars,
                   waits, wrote, skipSeen, cancelEarly, cancelled, semaphore, held>>

\* faulty variant: the existence check comes before the ctx.Err() check
CopyFile_Entry_ExistsFirst(i) ==
    /\ pc[i] = "cf_entry"
    /\ IF CopyFileSkips(files[i], config.Overwrite)
       THEN CopyFileReturns(i, "nil")
       ELSE IF CtxDone
       THEN CopyFileReturns(i, "cancelled")
       ELSE /\ CopyFileGoes(i, "cf_exists")
            /\ UNCHANGED <<srcOpen, dstOpen>>
    /\ UNCHANGED <<cfgVars, outerVars, mainVars, countVars, current, destDir, dest, faults,
                   attempts, wrote, skipSeen, cancelEarly, cancelled, semaphore, held>>

\* CopyFile: `if err := ctx.Err(); err != nil { return err }`
CopyFile_Entry(i) ==
    /\ pc[i] = "cf_entry"
    /\ IF CtxDone
       THEN CopyFileReturns(i, "cancelled")
       ELSE /\ CopyFileGoes(i, "cf_exists")
            /\ UNCHANGED <<srcOpen, dstOpen>>
    /\ UNCHANGED <<cfgVars, outerVars, mainVars, countVars, current, destDir, dest, faults,
                   attempts, wrote, skipSeen, cancelEarly, cancelled, semaphore, held>>

\* CopyFile: `if utils.FileExists(destPath) && !overwrite { return nil }`
CopyFile_Exists(i) ==
    /\ pc[i] = "cf_exists"
    /\ IF CopyFileSkips(files[i], config.Overwrite)
       THEN CopyFileReturns(i, "nil")
       ELSE /\ CopyFileGoes(i, "cf_locked")
            /\ UNCHANGED <<srcOpen, dstOpen>>
    /\ UNCHANGED <<cfgVars, outerVars, mainVars, countVars, current, destDir, dest, faults,
                   attempts, wrote, skipSeen, cancelEarly, cancelled, semaphore, held>>

\* faulty variant: the destination directory is made before the probe
CopyFile_Locked_AfterMkdir(i) ==
    /\ pc[i] = "cf_locked"
    /\ \/ /\ IsFileLocked(i)
          /\ CopyFileReturns(i, "locked")
          /\ destDir' = TRUE
          /\ UNCHANGED faults
       \/ /\ ~IsFileLocked(i)
          /\ MayFail
          /\ CopyFileReturns(i, "locked")
          /\ faults' = faults + 1
          /\ destDir' = TRUE
       \/ /\ ~IsFileLocked(i)
          /\ CopyFileGoes(i, "cf_mkdir")
          /\ UNCHANGED <<srcOpen, dstOpen, faults, destDir>>
    /\ UNCHANGED <<cfgVars, outerVars, mainVars, countVars, current, dest,
                   attempts, wrote, skipSeen, cancelEarly, cancelled, semaphore, held>>

\* CopyFile: the locked-file probe; a readable source may be locked for a moment
CopyFile_Locked(i) ==
    /\ pc[i] = "cf_locked"
    /\ \/ /\ IsFileLocked(i)
          /\ CopyFileReturns(i, "locked")
          /\ UNCHANGED faults
       \/ /\ ~IsFileLocked(i)
          /\ MayFail
          /\ CopyFileReturns(i, "locked")
          /\ faults' = faults + 1
       \/ /\ ~IsFileLocked(i)
          /\ CopyFileGoes(i, "cf_mkdir")
          /\ UNCHANGED <<srcOpen, dstOpen, faults>>
    /\ UNCHANGED <<cfgVars, outerVars, mainVars, countVars, current, destDir, dest,
                   attempts, wrote, skipSeen, cancelEarly, cancelled, semaphore, held>>

\* CopyFile: utils.EnsureDir(c.config.Destination)
CopyFile_EnsureDir(i) ==
    /\ pc[i] = "cf_mkdir"
    /\ \/ /\ destDir' = TRUE
          /\ CopyFileGoes(i, "cf_open")
          /\ UNCHANGED <<srcOpen, dstOpen, faults>>
       \/ /\ ~destDir
          /\ MayFail
          /\ CopyFileReturns(i, "mkdir")
          /\ faults' = faults + 1
          /\ UNCHANGED destDir
    /\ UNCHANGED <<cfgVars, outerVars, mainVars, countVars, current, dest,
                   attempts, wrote, skipSeen, cancelEarly, cancelled, semaphore, held>>

\* CopyFile: os.Open(sourcePath)
CopyFile_Open(i) ==
    /\ pc[i] = "cf_open"
    /\ \/ /\ CopyFileGoes(i, "cf_create")
          /\ srcOpen' = srcOpen \cup {i}
          /\ UNCHANGED <<dstOpen, faults>>
       \/ /\ MayFail
          /\ CopyFileReturns(i, "open")
          /\ faults' = faults + 1
    /\ UNCHANGED <<cfgVars, outerVars, mainVars, countVars, current, destDir, dest,
                   attempts, wrote, skipSeen, cancelEarly, cancelled, semaphore, held>>

\* faulty variant: the destination is opened for appending, not truncated
CopyFile_Create_Append(i) ==
    /\ pc[i] = "cf_create"
    /\ \/ /\ dest' = IF FileExists(files[i]) THEN dest
                      ELSE [dest EXCEPT ![files[i]] = <<"empty", i>>]
          /\ dstOpen' = dstOpen \cup {i}
          /\ wrote' = [wrote EXCEPT ![i] = TRUE]
          /\ CopyFileGoes(i, "cf_copy")
          /\ UNCHANGED <<srcOpen, faults>>
       \/ /\ MayFail
          /\ CopyFileReturns(i, "create")
          /\ faults' = faults + 1
          /\ UNCHANGED <<dest, wrote>>
    /\ UNCHANGED <<cfgVars, outerVars, mainVars, countVars, current, destDir,
                   attempts, skipSeen, cancelEarly, cancelled, semaphore, held>>

\* CopyFile: os.Create(destPath) creates or truncates the destination file
CopyFile_Create(i) ==
    /\ pc[i] = "cf_create"
    /\ \/ /\ dest' = [dest EXCEPT ![files[i]] = <<"empty", i>>]
          /\ dstOpen' = dstOpen \cup {i}
          /\ wrote' = [wrote EXCEPT ![i] = TRUE]
          /\ CopyFileGoes(i, "cf_copy")
          /\ UNCHANGED <<srcOpen, faults>>
       \/ /\ MayFail
          /\ CopyFileReturns(i, "create")
          /\ faults' = faults + 1
          /\ UNCHANGED <<dest, wrote>>
    /\ UNCHANGED <<cfgVars, outerVars, mainVars, countVars, current, destDir,
                   attempts, skipSeen, cancelEarly, cancelled, semaphore, held>>

\* CopyFile: io.Copy(dstFile, srcFile); a failure leaves what was written
CopyFile_Copy(i) ==
    /\ pc[i] = "cf_copy"
    /\ \/ /\ dest' = [dest EXCEPT ![files[i]] = AfterCopy(@, i)]
          /\ CopyFileGoes(i, "cf_sync")
          /\ UNCHANGED <<srcOpen, dstOpen, faults>>
       \/ /\ MayFail
          /\ dest' = [dest EXCEPT ![files[i]] = <<"partial", i>>]
          /\ CopyFileReturns(i, "copy")
          /\ faults' = faults + 1
    /\ UNCHANGED <<cfgVars, outerVars, mainVars, countVars, current, destDir,
                   attempts, wrote, skipSeen, cancelEarly, cancelled, semaphore, held>>

\* CopyFile: dstFile.Sync() and the return
CopyFile_Sync(i) ==
    /\ pc[i] = "cf_sync"
    /\ \/ /\ CopyFileReturns(i, "nil")
          /\ UNCHANGED faults
       \/ /\ MayFail
          /\ CopyFileReturns(i, "sync")
          /\ faults' = faults + 1
    /\ UNCHANGED <<cfgVars, outerVars, mainVars, countVars, current, destDir, dest,
                   attempts, wrote, skipSeen, cancelEarly, cancelled, semaphore, held>>

\* faulty variant: the cancelled wait reports the last I/O error
BackoffCancelled_LastErr(i) ==
    /\ pc[i] = "backoff"
    /\ CtxDone
    /\ ReturnResult(i, ResultFailed(lastErr[i]))
    /\ UNCHANGED <<cfgVars, outerVars, mainVars, countVars, attempt, lastErr, current, fsVars,
                   histVars, cancelled, semaphore, held>>

\* the backoff select takes `case <-ctx.Done()`
BackoffCancelled(i) ==
    /\ pc[i] = "backoff"
    /\ CtxDone
    /\ ReturnResult(i, ResultFailed("cancelled"))
    /\ UNCHANGED <<cfgVars, outerVars, mainVars, countVars, attempt, lastErr, current, fsVars,
                   histVars, cancelled, semaphore, held>>

\* the backoff select takes `case <-time.After(...)`; the loop statement
\* increments attempt and evaluates the loop condition
BackoffTimer(i) ==
    /\ pc[i] = "backoff"
    /\ attempt' = [attempt EXCEPT ![i] = @ + 1]
    /\ IF LoopCondition(attempt[i] + 1)
       THEN /\ pc' = [pc EXCEPT ![i] = "r_loop"]
            /\ UNCHANGED result
       ELSE ReturnResult(i, ResultFailed(lastErr[i]))
    /\ UNCHANGED <<cfgVars, outerVars, mainVars, countVars, lastErr, current, fsVars,
                   histVars, cancelled, semaphore, held>>

\* faulty variant: a failure is counted without its failedFiles entry
CountResult_NoAppend(i) ==
    /\ pc[i] = "count"
    /\ IF result[i].Success
       THEN /\ successful' = successful + 1
            /\ UNCHANGED <<failed, skipped>>
       ELSE IF result[i].Skipped
       THEN /\ skipped' = skipped + 1
            /\ UNCHANGED <<failed, successful>>
       ELSE /\ failed' = failed + 1
            /\ UNCHANGED <<successful, skipped>>
    /\ pc' = [pc EXCEPT ![i] = "incr"]
    /\ UNCHANGED <<cfgVars, outerVars, mainVars, processed, failedFiles, events,
                   attempt, lastErr, result, current, fsVars, histVars,
                   cancelled, semaphore, held>>

\* faulty variant: a skipped result is counted in no bucket
CountResult_DropSkipped(i) ==
    /\ pc[i] = "count"
    /\ IF result[i].Success
       THEN /\ successful' = successful + 1
            /\ UNCHANGED <<failed, skipped, failedFiles>>
       ELSE IF result[i].Skipped
       THEN UNCHANGED <<successful, failed, skipped, failedFiles>>
       ELSE /\ failed' = failed + 1
            /\ failedFiles' = Append(failedFiles, <<files[i], result[i].Error>>)
            /\ UNCHANGED <<successful, skipped>>
    /\ pc' = [pc EXCEPT ![i] = "incr"]
    /\ UNCHANGED <<cfgVars, outerVars, mainVars, processed, events,
                   attempt, lastErr, result, current, fsVars, histVars,
                   cancelled, semaphore, held>>

\* the goroutine folds the CopyResult into one of the three counters and,
\* for a failure, appends "name: error" to failedFiles under failedMu
CountResult(i) ==
    /\ pc[i] = "count"
    /\ IF result[i].Success
       THEN /\ successful' = successful + 1
            /\ UNCHANGED <<failed, skipped, failedFiles>>
       ELSE IF result[i].Skipped
       THEN /\ skipped' = skipped + 1
            /\ UNCHANGED <<failed, successful, failedFiles>>
       ELSE /\ failed' = failed + 1
            /\ failedFiles' = Append(failedFiles, <<files[i], result[i].Error>>)
            /\ UNCHANGED <<successful, skipped>>
    /\ pc' = [pc EXCEPT ![i] = "incr"]
    /\ UNCHANGED <<cfgVars, outerVars, mainVars, processed, events,
                   attempt, lastErr, result, current, fsVars, histVars,
                   cancelled, semaphore, held>>

\* faulty variant: a plain read, then a plain write that may be lost
IncrProcessed_Stale(i) ==
    /\ pc[i] = "incr"
    /\ mode = "events"
    /\ \E lost \in BOOLEAN :
            processed' = IF lost THEN processed ELSE processed + 1
    /\ current' = [current EXCEPT ![i] = processed + 1]
    /\ pc' = [pc EXCEPT ![i] = "callback"]
    /\ UNCHANGED <<cfgVars, outerVars, mainVars, successful, failed, skipped, failedFiles, events,
                   attempt, lastErr, result, fsVars, histVars,
                   cancelled, semaphore, held>>

\* callback mode: current := int(atomic.AddInt32(&processed, 1))
IncrProcessed(i) ==
    /\ pc[i] = "incr"
    /\ mode = "events"
    /\ processed' = processed + 1
    /\ current' = [current EXCEPT ![i] = processed + 1]
    /\ pc' = [pc EXCEPT ![i] = "callback"]
    /\ UNCHANGED <<cfgVars, outerVars, mainVars, successful, failed, skipped, failedFiles, events,
                   attempt, lastErr, result, fsVars, histVars,
                   cancelled, semaphore, held>>

\* console mode: bar.Add(1)
BarAdd(i) ==
    /\ pc[i] = "incr"
    /\ mode = "cli"
    /\ pc' = [pc EXCEPT ![i] = "release"]
    /\ UNCHANGED <<cfgVars, outerVars, mainVars, countVars, attempt, lastErr, result, current,
                   fsVars, histVars, cancelled, semaphore, held>>

\* callback mode: onProgress(current, total, fileName, status)
Callback(i) ==
    /\ pc[i] = "callback"
    /\ events' = Append(events, [current |-> current[i],
                                 total |-> Len(files),
                                 file |-> i,
                                 status |-> IF i \in DOMAIN result
                                            THEN StatusOf(result[i]) ELSE "success"])
    /\ pc' = [pc EXCEPT ![i] = "release"]
    /\ UNCHANGED <<cfgVars, outerVars, mainVars, successful, failed, skipped, processed, failedFiles,
                   attempt, lastErr, result, current, fsVars, histVars,
                   cancelled, semaphore, held>>

\* faulty variant: the slot is never given back
ReleaseSlot_Leak(i) ==
    /\ pc[i] = "release"
    /\ wg' = wg - 1
    /\ pc' = [pc EXCEPT ![i] = "done"]
    /\ UNCHANGED <<cfgVars, outerVars, mainPc, next, summary, countVars, attempt, lastErr, result,
                   current, fsVars, histVars, cancelled, semaphore, held>>

\* the deferred `<-semaphore`, then the deferred wg.Done()
ReleaseSlot(i) ==
    /\ pc[i] = "release"
    /\ semaphore' = semaphore - 1
    /\ held' = [held EXCEPT ![i] = FALSE]
    /\ wg' = wg - 1
    /\ pc' = [pc EXCEPT ![i] = "done"]
    /\ UNCHANGED <<cfgVars, outerVars, mainPc, next, summary, countVars, attempt, lastErr, result,
                   current, fsVars, histVars, cancelled>>

\* every step of the goroutine of file i (the unit of scheduling fairness)
Goroutine(i) ==
    \/ AcquireSlot(i) \/ AbandonOnCancel(i)
    \/ DryRunCount(i) \/ RetrySkipCheck(i)
    \/ RetryLoopTop(i)
    \/ CopyFile_Entry(i) \/ CopyFile_Exists(i) \/ CopyFile_Locked(i)
    \/ CopyFile_EnsureDir(i) \/ CopyFile_Open(i) \/ CopyFile_Create(i)
    \/ CopyFile_Copy(i) \/ CopyFile_Sync(i)
    \/ BackoffCancelled(i) \/ BackoffTimer(i)
    \/ CountResult(i)
    \/ IncrProcessed(i) \/ BarAdd(i) \/ Callback(i)
    \/ ReleaseSlot(i)

\* every step of the main goroutine
Scheduler == Dispatch \/ DispatchEnd \/ WaitAndReturn

\* the steps of the launched goroutines
GoroutineStep ==
    \/ \E i \in Tasks : AcquireSlot(i)
    \/ \E i \in Tasks : AbandonOnCancel(i)
    \/ \E i \in Tasks : DryRunCount(i)
    \/ \E i \in Tasks : RetrySkipCheck(i)
    \/ \E i \in Tasks : RetryLoopTop(i)
    \/ \E i \in Tasks : CopyFile_Entry(i)
    \/ \E i \in Tasks : CopyFile_Exists(i)
    \/ \E i \in Tasks : CopyFile_Locked(i)
    \/ \E i \in Tasks : CopyFile_EnsureDir(i)
    \/ \E i \in Tasks : CopyFile_Open(i)
    \/ \E i \in Tasks : CopyFile_Create(i)
    \/ \E i \in Tasks : CopyFile_Copy(i)
    \/ \E i \in Tasks : CopyFile_Sync(i)
    \/ \E i \in Tasks : BackoffCancelled(i)
    \/ \E i \in Tasks : BackoffTimer(i)
    \/ \E i \in Tasks : CountResult(i)
    \/ \E i \in Tasks : IncrProcessed(i)
    \/ \E i \in Tasks : BarAdd(i)
    \/ \E i \in Tasks : Callback(i)
    \/ \E i \in Tasks : ReleaseSlot(i)

Next ==
    \/ Dispatch
    \/ DispatchEnd
    \/ WaitAndReturn
    \/ Cancel
    \/ GoroutineStep

Spec == Init /\ [][Next]_vars

\* Go's scheduler runs every runnable goroutine eventually; the caller's
\* cancel and the environment's I/O failures are under no obligation.
FairSpec ==
    /\ Spec
    /\ WF_vars(Scheduler)
    /\ \A i \in 1..MaxFiles : WF_vars(i \in Tasks /\ Goroutine(i))

\* a batch whose cancel is observed
GateNext ==
    \/ Dispatch
    \/ DispatchEnd
    \/ WaitAndReturn
    \/ CancelObserved
    \/ GoroutineStep

GateSpec == Init /\ [][GateNext]_vars

\* a batch of the desktop application, whose configuration was loaded from
\* config.yaml at startup
LoadedNext ==
    \/ LoadFromFile
    \/ Next

LoadedSpec == Init /\ [][LoadedNext]_vars

\* a batch over any file list a caller may pass
AnyListInit == BatchInit(AnyFileLists)

AnyListSpec == AnyListInit /\ [][Next]_vars

\* a batch that is run again after it returned
RerunInit == Init /\ Len(files) <= MaxRerunFiles

RerunNext ==
    \/ Rerun
    \/ Next

RerunSpec == RerunInit /\ [][RerunNext]_vars

\* the desktop application: its frontend calls UpdateConfig, ScanFiles,
\* StartCopy and CancelCopy, each call on a goroutine of its own
AppInit ==
    /\ EngineIdle /\ ObsIdle /\ ConfIdle /\ ScanIdle /\ RetryIdle
    /\ app \in {AppStart, AppStartOn(LoadedConfig)}

AppNext ==
    \/ ScanFiles
    \/ \E s \in Starters : StartCopy_Entry(s)
    \/ \E s \in Starters : StartCopy_SetOverwrite(s)
    \/ \E s \in Starters : StartCopy_WithCancel(s)
    \/ \E s \in Starters : StartCopy_GetFiles(s)
    \/ \E s \in Starters : StartCopy_EmitStart(s)
    \/ \E s \in Starters : StartCopy_FileTask(s)
    \/ \E s \in Starters : StartCopy_BatchReturns(s)
    \/ \E s \in Starters : StartCopy_EmitComplete(s)
    \/ \E s \in Starters : StartCopy_Defer(s)
    \/ CancelCopy_Test
    \/ CancelCopy_Call
    \/ CancelCopy_Emit

AppSpec == AppInit /\ [][AppNext]_vars

\* the desktop application while its settings form is in use: UpdateConfig,
\* ScanFiles and StartCopy calls, no CancelCopy
SettingsNext ==
    \/ UpdateConfig
    \/ ScanFiles
    \/ \E s \in Starters : StartCopy_Entry(s)
    \/ \E s \in Starters : StartCopy_SetOverwrite(s)
    \/ \E s \in Starters : StartCopy_WithCancel(s)
    \/ \E s \in Starters : StartCopy_GetFiles(s)
    \/ \E s \in Starters : StartCopy_EmitStart(s)
    \/ \E s \in Starters : StartCopy_FileTask(s)
    \/ \E s \in Starters : StartCopy_BatchReturns(s)
    \/ \E s \in Starters : StartCopy_EmitComplete(s)
    \/ \E s \in Starters : StartCopy_Defer(s)

SettingsSpec == AppInit /\ [][SettingsNext]_vars

\* one GetFiles call over a source directory and an allow-list
GetFilesInit ==
    /\ EngineIdle /\ ObsIdle /\ AppIdle /\ ConfIdle /\ RetryIdle
    /\ \E exists, fails \in BOOLEAN :
       \E entries \in [1..Len(EntryNames) -> EntryKinds] :
       \E extensions \in AllowLists :
            /\ ~exists => (~fails /\ \A k \in 1..Len(EntryNames) : entries[k] = "absent")
            /\ scan = [pc |-> "call", sourceExists |-> exists, readFails |-> fails,
                       entries |-> entries, extensions |-> extensions,
                       i |-> 0, files |-> <<>>, err |-> "none"]

GetFilesNext ==
    \/ GetFiles_ReadDir
    \/ GetFiles_Entry
    \/ GetFiles_Return

GetFilesSpec == GetFilesInit /\ [][GetFilesNext]_vars

\* Validate called on a Config of any settings
ValidateInit ==
    /\ EngineIdle /\ ObsIdle /\ AppIdle /\ ScanIdle /\ RetryIdle
    /\ \E w \in WorkersTried, r \in RetriesTried, g \in 0..1 :
       \E src \in {"", "src"}, dst \in {"", "dst"} :
            conf = [Source |-> src, Destination |-> dst, Groups |-> g,
                    Workers |-> w, MaxRetries |-> r,
                    given |-> [Workers |-> w, MaxRetries |-> r],
                    calls |-> <<>>]

ValidateNext == Validate

ValidateSpec == ValidateInit /\ [][ValidateNext]_vars

\* one CopyFileWithRetry call under any settings, on a file whose
\* destination exists or not
RetryInit ==
    /\ EngineIdle /\ ObsIdle /\ AppIdle /\ ConfIdle /\ ScanIdle
    /\ \E m \in RetriesCalled, o \in BOOLEAN, x \in BOOLEAN :
            retry = [MaxRetries |-> m, Overwrite |-> o, destExists |-> x,
                     pc |-> "call", attempt |-> 0, lastErr |-> "nil",
                     ctxDone |-> FALSE, log |-> <<>>, result |-> <<>>]

RetryNext ==
    \/ Retry_Call
    \/ Retry_LoopTop
    \/ Retry_CopyFile
    \/ Retry_WaitTimer
    \/ Retry_WaitCancelled
    \/ Retry_Cancel

RetrySpec == RetryInit /\ [][RetryNext]_vars

\* ------------------------------------------------------------------ properties
Returned == mainPc = "returned"

\* the three buckets of the returned summary
Counted == summary[1].Successful + summary[1].Failed + summary[1].Skipped

\* goroutine i is between its slot acquisition and its slot release
Admitted(i) == pc[i] \in (InCopyFile \cup
    {"work", "r_loop", "cf_entry", "backoff", "count", "incr", "callback", "release"})

\* the destination side is as it was before the batch
DestUntouched ==
    /\ \A n \in NameIds : dest[n] \in {NoFile, OldFile}
    /\ destDir = (\E n \in NameIds : dest[n] # NoFile)
    /\ \A i \in Tasks : ~wrote[i]

\* C1: a batch of either mode in which cancel never fired returns a summary
\* with Successful + Failed + Skipped = TotalFiles = len(files).
C1_CountsAddUp ==
    (Returned /\ ~cancelled) =>
        /\ Counted = summary[1].TotalFiles
        /\ summary[1].TotalFiles = Len(files)

C1_Witness ==
    /\ Returned /\ ~cancelled
    /\ Len(files) >= 2
    /\ summary[1].Failed >= 1
    /\ summary[1].Skipped + summary[1].Successful >= 1

\* C2: at every instant at most config.Workers goroutines are between the
\* acquisition of a slot and its release.
C2_ConcurrencyBound ==
    Cardinality({i \in Tasks : Admitted(i)}) <= config.Workers

C2_Witness ==
    /\ Len(files) > config.Workers
    /\ Cardinality({i \in Tasks : Admitted(i)}) = config.Workers
    /\ \E i \in Tasks : pc[i] = "acquire"

\* C3: under fair scheduling every dispatched batch eventually returns its
\* one CopySummary, cancelled or not, whatever the per-file outcomes.
C3_BatchReturns == <>(Returned /\ Len(summary) = 1)

C3_Witness ==
    /\ Returned /\ Len(summary) = 1
    /\ cancelled
    /\ Len(files) > config.Workers
    /\ \E i \in Tasks : waits[i] >= 1

\* C4: when the destination exists and Overwrite is false at the call of
\* CopyFileWithRetry, the result is skipped for every MaxRetries, CopyFile is
\* never called, no backoff wait is entered and the destination keeps its
\* old content.
C4_SkipLaw ==
    \A i \in Tasks :
        skipSeen[i] =>
            /\ i \in DOMAIN result
            /\ result[i] = ResultSkipped
            /\ attempts[i] = 0
            /\ waits[i] = 0
            /\ ~wrote[i]
            /\ dest[files[i]] = OldFile

C4_Witness ==
    \E i \in Tasks :
        /\ skipSeen[i]
        /\ pc[i] = "done"
        /\ config.MaxRetries >= 1

\* C5: without cancellation and without the skip condition, a source that
\* is unreadable on every attempt yields a failed result after exactly
\* MaxRetries + 1 CopyFile calls (and MaxRetries waits); no failed result
\* is returned after fewer calls.
C5_RetryLaw ==
    \A i \in DOMAIN result :
        /\ (~cancelled /\ ~srcOK[i] /\ ~skipSeen[i]) =>
                /\ result[i] = ResultFailed("locked")
                /\ attempts[i] = config.MaxRetries + 1
                /\ waits[i] = config.MaxRetries
        /\ (~cancelled /\ ~result[i].Success /\ ~result[i].Skipped) =>
                attempts[i] = config.MaxRetries + 1

C5_Witness ==
    \E i \in DOMAIN result :
        /\ ~cancelled /\ ~srcOK[i] /\ dest[files[i]] = NoFile
        /\ config.MaxRetries >= 1
        /\ attempts[i] = config.MaxRetries + 1

\* C6 as stated: every DryRun batch returns Successful = N, Failed = 0,
\* Skipped = 0 and leaves the destination side untouched.
C6_DryRunLaw_AsStated ==
    (config.DryRun /\ Returned) =>
        /\ summary[1].Successful = Len(files)
        /\ summary[1].Failed = 0
        /\ summary[1].Skipped = 0
        /\ DestUntouched

\* C6 (amended): in a DryRun batch nothing is ever counted failed or skipped,
\* CopyFile is never called and the destination side stays untouched, and a
\* batch in which cancel did not fire returns Successful = N; a cancelled
\* batch of the callback mode may return Successful < N.
C6_DryRunLaw ==
    config.DryRun =>
        /\ failed = 0 /\ skipped = 0 /\ failedFiles = <<>>
        /\ successful <= Len(files)
        /\ \A i \in Tasks : attempts[i] = 0
        /\ DestUntouched
        /\ (Returned /\ ~cancelled) =>
                /\ summary[1].Successful = Len(files)
                /\ summary[1].Failed = 0
                /\ summary[1].Skipped = 0

C6_Witness ==
    /\ config.DryRun /\ Returned /\ ~cancelled
    /\ ~config.Overwrite
    /\ Len(files) >= 2
    /\ \E i \in Tasks : dest[files[i]] = OldFile
    /\ \E i \in Tasks : ~srcOK[i]
    /\ summary[1].Successful = Len(files)

\* C7 as stated: when cancel fired before the dispatch loop launched anything
\* and the list is longer than Workers, the summary counts fewer files than
\* TotalFiles.
C7_CancelBeforeDispatchDrops ==
    (Returned /\ cancelEarly /\ Len(files) > config.Workers) =>
        Counted < summary[1].TotalFiles

\* C8 as stated: the `current` values arrive at onProgress in non-decreasing
\* order.
C8_ProgressMonotonic ==
    \A k \in 1..(Len(events) - 1) : events[k].current <= events[k + 1].current

\* C9 as stated: an attempt that is past CopyFile's entry check when cancel
\* has fired, and that meets no I/O failure, ends with the complete source
\* content at the destination and a successful result.
C9_NoInterruption ==
    [][\A i \in Tasks :
        (/\ cancelled
         /\ pc[i] \in InCopyFile
         /\ pc'[i] \notin InCopyFile
         /\ srcOK[i]
         /\ faults' = faults) =>
            /\ pc'[i] = "count"
            /\ result'[i] = ResultSuccess
            /\ dest'[files[i]] = <<"full", i>>]_vars

\* C10: once cancel has fired, a goroutine in the backoff wait makes no
\* further CopyFile call and returns failed with the cancellation error,
\* whether its select takes the Done case or a timer that expired at the
\* same moment (the loop's ctx.Err() check then returns the same result).
C10_BackoffCancel ==
    [][\A i \in Tasks :
        /\ (cancelled /\ pc[i] = "backoff" /\ pc'[i] # "backoff") =>
                /\ attempts'[i] = attempts[i]
                /\ waits'[i] = waits[i]
                /\ \/ pc'[i] = "r_loop"
                   \/ pc'[i] = "count" /\ result'[i] = ResultFailed("cancelled")
        /\ (cancelled /\ pc[i] = "r_loop" /\ pc'[i] # "r_loop") =>
                /\ attempts'[i] = attempts[i]
                /\ waits'[i] = waits[i]
                /\ pc'[i] = "count" /\ result'[i] = ResultFailed("cancelled")]_vars

C10_Witness ==
    \E i \in DOMAIN result :
        /\ cancelled
        /\ result[i] = ResultFailed("cancelled")
        /\ waits[i] >= 1
        /\ attempts[i] = waits[i]
        /\ lastErr[i] # "cancelled"

\* C11 as stated: a goroutine that was waiting for a slot when cancel fired
\* never acquires one: it is counted in no bucket, gets no progress
\* notification and makes no CopyFile call, whichever slot becomes free.
C11_WaiterAbandons ==
    \A i \in waitingAtCancel :
        /\ pc[i] \in {"acquire", "done"}
        /\ ~held[i]
        /\ i \notin DOMAIN result
        /\ current[i] = 0
        /\ attempts[i] = 0

\* the result a file gets from its own inputs alone (skip condition at the
\* call, readability of its source)
OwnOutcome(j) ==
    IF skipSeen[j] THEN ResultSkipped
    ELSE IF srcOK[j] THEN ResultSuccess
    ELSE ResultFailed("locked")

\* no transient I/O failure hit file j: none was injected at all, or the
\* attempts of j saw no error but that of its own unreadable source
Undisturbed(j) == faults = 0 \/ (srcOK[j] => lastErr[j] = "nil")

\* C12: without cancellation, the result of every file that met no I/O
\* failure of its own is determined by its own inputs, whatever the other
\* files of the batch do (fail on every attempt included), every file is
\* processed, and the batch returns its summary.
C12_FailureIsolation ==
    /\ \A j \in DOMAIN result :
            (~cancelled /\ Undisturbed(j)) => result[j] = OwnOutcome(j)
    /\ (Returned /\ ~cancelled /\ ~config.DryRun) => DOMAIN result = Tasks
    /\ (Returned /\ ~cancelled) => Counted = Len(files)

C12_Witness ==
    /\ Returned /\ ~cancelled
    /\ config.MaxRetries >= 1
    /\ \E i, j \in DOMAIN result :
            /\ ~srcOK[i] /\ result[i] = ResultFailed("locked")
            /\ attempts[i] = config.MaxRetries + 1
            /\ srcOK[j] /\ result[j] = ResultSuccess
    /\ summary[1].Failed = 1 /\ summary[1].Successful = 1

\* C13 as stated: every CopyResult is success, skipped or failed with a
\* non-nil Error.
C13_ThreeWayResult ==
    \A i \in DOMAIN result :
        \/ result[i] = ResultSuccess
        \/ result[i] = ResultSkipped
        \/ /\ ~result[i].Success /\ ~result[i].Skipped
           /\ result[i].Error # "nil"

\* C14: a CopyFile call that returns nil with overwrite=true leaves exactly
\* the source content at the destination, nothing of what the file held
\* before; with an existing destination and overwrite=false it returns nil
\* and leaves the destination as it was.
C14_OverwriteLaw ==
    [][\A i \in Tasks :
        /\ (/\ pc[i] \in InCopyFile
            /\ pc'[i] = "count" /\ result'[i] = ResultSuccess
            /\ config.Overwrite) =>
                dest'[files[i]] = <<"full", i>>
        /\ (/\ pc[i] = "cf_exists" /\ pc'[i] # "cf_exists"
            /\ FileExists(files[i]) /\ ~config.Overwrite) =>
                /\ pc'[i] = "count" /\ result'[i] = ResultSuccess
                /\ dest' = dest /\ destDir' = destDir /\ wrote' = wrote]_vars

C14_Witness ==
    \E i \in DOMAIN result :
        /\ DOMAIN firstRunDest = NameIds
        /\ firstRunDest[files[i]] = OldFile
        /\ config.Overwrite
        /\ result[i] = ResultSuccess
        /\ dest[files[i]] = <<"full", i>>

Completed(i) ==
    \/ pc[i] \in {"incr", "callback", "release"}
    \/ pc[i] = "done" /\ (mode = "cli" \/ current[i] > 0)

\* the bucket of a goroutine that has counted
Bucket(i) == IF config.DryRun THEN "success" ELSE StatusOf(result[i])

\* the goroutines that have counted themselves in bucket b
CountedIn(b) == {i \in Tasks : Completed(i) /\ Bucket(i) = b}

\* the positions of failedFiles that name file i
EntriesOf(i) == {k \in 1..Len(failedFiles) : failedFiles[k][1] = files[i]}

\* C17: at every moment, and so when the summary is built, each counter is
\* the number of goroutines that completed in its bucket (one increment of
\* one counter per completed goroutine), len(failedFiles) = failed, each
\* failed goroutine has exactly one entry carrying its error, and a
\* successful or skipped one has none.
C17_ExactlyOneBucket ==
    /\ successful = Cardinality(CountedIn("success"))
    /\ failed = Cardinality(CountedIn("failed"))
    /\ skipped = Cardinality(CountedIn("skipped"))
    /\ Len(failedFiles) = failed
    /\ \A i \in Tasks :
            IF i \in CountedIn("failed")
            THEN \E k \in 1..Len(failedFiles) :
                    /\ EntriesOf(i) = {k}
                    /\ failedFiles[k][2] = result[i].Error
            ELSE EntriesOf(i) = {}
    /\ Returned =>
            /\ summary[1].Failed = Len(summary[1].FailedFiles)
            /\ summary[1].FailedFiles = failedFiles
            /\ summary[1].Successful = successful
            /\ summary[1].Skipped = skipped

C17_Witness ==
    /\ Returned
    /\ Len(summary[1].FailedFiles) = 2
    /\ summary[1].Failed = 2
    /\ summary[1].FailedFiles[1][2] # summary[1].FailedFiles[2][2]

\* C18: in callback mode onProgress is invoked at most once per goroutine,
\* exactly for the completed ones past their callback and never for a
\* dropped one, always with total = len(files) and with pairwise distinct
\* `current` values; when the summary is returned the invocations number
\* Successful + Failed + Skipped and their `current` values are exactly
\* 1..that number.
C18_CallbackOncePerTask ==
    mode = "events" =>
        /\ \A k \in 1..Len(events) : events[k].total = Len(files)
        /\ \A k, l \in 1..Len(events) :
                k # l => /\ events[k].file # events[l].file
                         /\ events[k].current # events[l].current
        /\ \A i \in Tasks :
                (\E k \in 1..Len(events) : events[k].file = i) <=>
                    (pc[i] = "release" \/ (pc[i] = "done" /\ current[i] > 0))
        /\ Returned =>
                /\ Len(events) = Counted
                /\ {events[k].current : k \in 1..Len(events)} = 1..Counted

C18_Witness ==
    /\ mode = "events" /\ Returned
    /\ cancelled
    /\ Len(files) = 2
    /\ \E i \in Tasks : pc[i] = "done" /\ current[i] = 0
    /\ Len(events) = 1
    /\ events[1].current = 1

\* entry k of the directory is to be listed: a non-directory whose
\* extension is, up to case, one of the allow-list, or any non-directory
\* when the allow-list is empty
Listed(k) ==
    /\ scan.entries[k] = "file"
    /\ \/ scan.extensions = <<>>
       \/ \E a \in 1..Len(scan.extensions) :
                EqualFold(scan.extensions[a], Ext(EntryNames[k]))

\* C19: GetFiles returns an error and no list for a source directory that
\* does not exist (or cannot be read); otherwise it returns, in directory
\* order and each once, exactly the listed entries: never a subdirectory,
\* never a file whose extension is outside a non-empty allow-list.
C19_GetFilesFilter ==
    scan # <<>> /\ scan.pc = "returned" =>
        IF ~scan.sourceExists
        THEN scan.err = "source directory does not exist" /\ scan.files = <<>>
        ELSE IF scan.readFails
        THEN scan.err # "nil" /\ scan.files = <<>>
        ELSE /\ scan.err = "nil"
             /\ {scan.files[x] : x \in 1..Len(scan.files)}
                    = {k \in 1..Len(EntryNames) : Listed(k)}
             /\ \A x, y \in 1..Len(scan.files) : x < y => scan.files[x] < scan.files[y]

C19_Witness ==
    /\ scan # <<>> /\ scan.pc = "returned"
    /\ scan.err = "nil"
    /\ scan.extensions = << <<Dot, Chr("j", TRUE)>> >>
    /\ scan.entries = <<"file", "file", "file", "file", "dir">>
    /\ scan.files = <<2, 3>>

\* C20: a Validate call that returns nil leaves 1 <= Workers <= 50 and
\* MaxRetries >= 0, having moved a Workers below 1 to 1, a Workers above 50
\* to 50 and a negative MaxRetries to 0 and left values in range as they
\* were; a second call leaves what the first call left.
C20_ValidateClamps ==
    conf # <<>> =>
        \A n \in 1..Len(conf.calls) :
            conf.calls[n].err = "nil" =>
                /\ conf.Workers = conf.calls[n].Workers
                /\ conf.MaxRetries = conf.calls[n].MaxRetries
                /\ 1 <= conf.Workers /\ conf.Workers <= 50
                /\ conf.MaxRetries >= 0
                /\ conf.given.Workers < 1 => conf.Workers = 1
                /\ conf.given.Workers > 50 => conf.Workers = 50
                /\ conf.given.MaxRetries < 0 => conf.MaxRetries = 0
                /\ (1 <= conf.given.Workers /\ conf.given.Workers <= 50)
                        => conf.Workers = conf.given.Workers
                /\ conf.given.MaxRetries >= 0 => conf.MaxRetries = conf.given.MaxRetries
                /\ n > 1 => conf.calls[n] = conf.calls[n - 1]

C20_Witness ==
    /\ conf # <<>>
    /\ Len(conf.calls) = 2
    /\ conf.calls[2].err = "nil"
    /\ conf.given.Workers > 50 /\ conf.Workers = 50
    /\ conf.given.MaxRetries < 0 /\ conf.MaxRetries = 0

\* C21 as stated: after an attempt that failed in io.Copy or Sync, the next
\* attempt of the same task goes past the existence check of CopyFile to
\* re-create the destination file, for either value of Overwrite.
C21_RetryRecreates ==
    [][\A i \in Tasks :
        (/\ pc[i] = "cf_exists"
         /\ lastErr[i] \in {"copy", "sync"}
         /\ pc'[i] # pc[i]) =>
            pc'[i] = "cf_locked"]_vars

\* C22 as stated: when a batch that is no dry run returns, every file
\* counted successful has its complete source content at the destination.
C22_SuccessMeansCopied ==
    (Returned /\ ~config.DryRun) =>
        \A i \in DOMAIN result :
            result[i].Success => dest[files[i]] = <<"full", i>>

\* C23 as stated: the dispatch loop of CopyFilesParallelWithEvents launches
\* no goroutine for a file it reaches after cancel has fired.
C23_NoLaunchAfterCancel ==
    [][CtxDone => \A i \in Tasks : pc[i] = "idle" => pc'[i] = "idle"]_vars

\* C24 as stated: a goroutine that was still waiting for a slot when cancel
\* fired, and so is admitted after the cancel if at all, never increments
\* the successful counter, in a dry run as in a real run.
C24_NoSuccessAfterCancel ==
    [][\A i \in waitingAtCancel : pc'[i] # pc[i] => successful' = successful]_vars

\* C25: a goroutine of a real run that holds a slot and whose first
\* ctx.Err() check in CopyFileWithRetry finds cancel fired, its file not
\* being skip-eligible, gets the cancellation error as its result without a
\* CopyFile call, a wait or any change to its destination file, and once it
\* has counted it is in the failed bucket with one failedFiles entry that
\* carries the cancellation error.
C25_CancelledBeforeAttempt ==
    \A i \in DOMAIN result :
        (attempts[i] = 0 /\ ~skipSeen[i]) =>
            /\ cancelled
            /\ result[i] = ResultFailed("cancelled")
            /\ waits[i] = 0
            /\ ~wrote[i]
            /\ dest[files[i]] \in {NoFile, OldFile}
            /\ i \notin srcOpen /\ i \notin dstOpen
            /\ Completed(i) =>
                    /\ i \in CountedIn("failed")
                    /\ \E k \in EntriesOf(i) :
                            /\ EntriesOf(i) = {k}
                            /\ failedFiles[k] = <<files[i], "cancelled">>

C25_Witness ==
    /\ Returned
    /\ \E i \in DOMAIN result :
            /\ attempts[i] = 0 /\ ~skipSeen[i]
            /\ srcOK[i]
            /\ <<files[i], "cancelled">> = summary[1].FailedFiles[1]
    /\ \E j \in DOMAIN result : result[j] = ResultFailed("locked")

\* C26: a CopyFile call that finds cancel fired at its entry returns the
\* cancellation error, not nil, and leaves the destination directory, every
\* destination file and every file handle as they were, also when the
\* destination exists and Overwrite is false.
C26_CancelledCopyFile ==
    [][\A i \in Tasks :
        (pc[i] = "cf_entry" /\ CtxDone /\ pc'[i] # pc[i]) =>
            /\ lastErr'[i] = "cancelled"
            /\ i \in DOMAIN result' => result'[i] = ResultFailed("cancelled")
            /\ pc'[i] \in {"backoff", "r_loop", "count"}
            /\ destDir' = destDir /\ dest' = dest
            /\ srcOpen' = srcOpen /\ dstOpen' = dstOpen
            /\ wrote' = wrote]_vars

C26_Witness ==
    \E i \in DOMAIN result :
        /\ result[i] = ResultFailed("cancelled")
        /\ lastErr[i] = "cancelled"
        /\ ~config.Overwrite
        /\ dest[files[i]] = <<"partial", i>>
        /\ attempts[i] = 2

\* C29: CopyFile on an unreadable source, past the existence check, returns
\* the "locked" error at the probe: the destination directory and every
\* destination file stay as they were, and the goroutine of an unreadable
\* source never reaches EnsureDir, os.Open or os.Create.
C29_LockedBeforeEffects ==
    [][\A i \in Tasks :
        /\ ~srcOK[i] =>
                /\ pc'[i] \notin {"cf_mkdir", "cf_open", "cf_create", "cf_copy", "cf_sync"}
                /\ ~wrote'[i]
        /\ (pc[i] = "cf_locked" /\ ~srcOK[i] /\ pc'[i] # pc[i]) =>
                /\ lastErr'[i] = "locked"
                /\ destDir' = destDir /\ dest' = dest
                /\ srcOpen' = srcOpen /\ dstOpen' = dstOpen]_vars

C29_Witness ==
    /\ Returned
    /\ ~destDir
    /\ config.Overwrite
    /\ \E i \in DOMAIN result : ~srcOK[i] /\ result[i] = ResultFailed("locked")

\* C30: the slots taken are exactly those of the goroutines between their
\* acquisition and their deferred release, each of them holding one; a
\* goroutine that abandoned without a slot, or that is done, holds none and
\* gives none back; when the batch returns every slot is free.
C30_SlotsReleased ==
    /\ semaphore = Cardinality({i \in Tasks : held[i]})
    /\ \A i \in Tasks : held[i] <=> Admitted(i)
    /\ semaphore >= 0 /\ semaphore <= config.Workers
    /\ Returned => semaphore = 0

C30_Witness ==
    /\ Returned /\ cancelled /\ ~config.DryRun
    /\ semaphore = 0
    /\ config.Workers = 1
    /\ \E i \in Tasks : pc[i] = "done" /\ i \notin DOMAIN result
    /\ \E i \in DOMAIN result : result[i].Success

\* the positions of retry.log that are attempts / completed waits
AttemptsLogged == {k \in 1..Len(retry.log) : retry.log[k][1] = "attempt"}
WaitsLogged == {k \in 1..Len(retry.log) : retry.log[k][1] = "wait"}

\* the call made at most MaxRetries + 1 attempts and, if it succeeded, the
\* successful attempt is the first one without an error and the last entry
\* of the log: nothing was attempted or waited for after it
AttemptLaw ==
    /\ Cardinality(AttemptsLogged) <= retry.MaxRetries + 1
    /\ \A k \in AttemptsLogged : retry.log[k][3] = "nil" =>
            /\ k = Len(retry.log)
            /\ retry.pc = "returned" /\ retry.result = ResultSuccess
    /\ (retry.pc = "returned" /\ retry.result.Success) =>
            /\ Len(retry.log) >= 1
            /\ retry.log[Len(retry.log)][1] = "attempt"
            /\ retry.log[Len(retry.log)][3] = "nil"

\* the error of the last attempt the call made
LastAttemptError ==
    retry.log[CHOOSE k \in AttemptsLogged : \A m \in AttemptsLogged : m <= k][3]

\* the call returned a failure after at least one attempt
FailedAfterAttempts ==
    /\ retry # <<>> /\ retry.pc = "returned"
    /\ ~retry.result.Success /\ ~retry.result.Skipped
    /\ AttemptsLogged # {}

\* C27 as stated: at most MaxRetries + 1 attempts, success right after the
\* first successful attempt, and a failure after attempts always carries
\* the error of the last attempt made.
C27_RetryResult_AsStated ==
    retry # <<>> =>
        /\ AttemptLaw
        /\ FailedAfterAttempts => retry.result.Error = LastAttemptError

\* C27 (amended): at most MaxRetries + 1 attempts, success right after the
\* first successful attempt; when all MaxRetries + 1 attempts were made and
\* failed the result carries the error of the last attempt; a call that
\* failed after fewer attempts was ended by cancellation and carries the
\* cancellation error, whatever the last attempt returned.
C27_RetryResult ==
    retry # <<>> =>
        /\ AttemptLaw
        /\ FailedAfterAttempts =>
                IF Cardinality(AttemptsLogged) = retry.MaxRetries + 1
                THEN retry.result.Error = LastAttemptError
                ELSE retry.ctxDone /\ retry.result.Error = "cancelled"

C27_Witness ==
    /\ FailedAfterAttempts
    /\ retry.MaxRetries = 2
    /\ Cardinality(AttemptsLogged) = 3
    /\ ~retry.ctxDone
    /\ retry.log[1][3] = "copy"
    /\ LastAttemptError = "locked"
    /\ retry.result.Error = "locked"

C31_SummaryAfterAllTasks ==
    [][/\ Len(summary') <= 1
       /\ (mainPc' # "returned") => summary' = <<>>
       /\ (mainPc' = "returned") =>
            /\ Len(summary') = 1
            /\ \A i \in Tasks : pc'[i] = "done"
            /\ wg' = 0
            /\ summary'[1].Successful = successful'
            /\ summary'[1].Failed = failed'
            /\ summary'[1].Skipped = skipped'
            /\ summary'[1].FailedFiles = failedFiles'
       /\ (mainPc = "returned") =>
            /\ countVars' = countVars
            /\ summary' = summary]_vars

C31_Witness ==
    /\ Returned /\ cancelled
    /\ Len(summary) = 1
    /\ \E i \in Tasks : pc[i] = "done" /\ current[i] = 0
    /\ Len(events) = 1
    /\ summary[1].Failed = 1

\* C32: at every moment of a batch of either mode, cancelled or not,
\* successful + failed + skipped <= len(files), and the summary's
\* TotalFiles is len(files).
C32_TotalIsListLength ==
    /\ successful + failed + skipped <= Len(files)
    /\ Returned => /\ summary[1].TotalFiles = Len(files)
                   /\ Counted <= summary[1].TotalFiles

C32_Witness ==
    /\ Returned /\ cancelled
    /\ Len(files) = 2
    /\ summary[1].TotalFiles = 2
    /\ Counted = 1

\* C33 as stated: for any file list handed to the scheduler, no two
\* goroutines have the same destination path open for writing at the same
\* time.
C33_ExclusiveDestination ==
    \A i, j \in dstOpen : i # j => files[i] # files[j]

\* C34: a goroutine holds a source handle only between os.Open and the
\* return of that CopyFile call, a destination handle only between
\* os.Create and that return, whichever way the call returns; a goroutine
\* outside CopyFile, and so a finished one, holds no handle.
C34_HandlesClosed ==
    \A i \in Tasks :
        /\ i \in srcOpen <=> pc[i] \in {"cf_create", "cf_copy", "cf_sync"}
        /\ i \in dstOpen <=> pc[i] \in {"cf_copy", "cf_sync"}
        /\ pc[i] \notin InCopyFile => (i \notin srcOpen /\ i \notin dstOpen)

C34_Witness ==
    /\ Returned
    /\ srcOpen = {} /\ dstOpen = {}
    /\ \E i \in DOMAIN result : result[i] = ResultFailed("sync")
    /\ \E j \in DOMAIN result : result[j] = ResultSuccess

\* C35: a StartCopy(overwrite) call runs its batch with the overwrite policy
\* of its argument, whatever UpdateConfig and ScanFiles calls preceded it.
\* Stated for a call that does not overlap another StartCopy call: every
\* Overwrite value the tasks of its batch read is the argument.
C35_BatchUsesArgument ==
    \A s \in Starters :
        (\A t \in Starters \ {s} : app.spc[t] = "idle")
            => app.sused[s] \subseteq {app.sarg[s]}

\* the events <<ev, s>> of call s, by their position in the emission order
Emitted(ev, s) == { k \in 1..Len(app.emitted) : app.emitted[k] = <<ev, s>> }

\* C36: for each StartCopy call that dispatches a batch, copy:start comes
\* before every copy:progress of the batch, every copy:progress comes before
\* copy:complete, and copy:complete is emitted once: never twice, and once
\* when the call has returned, cancelled or not.
C36_EventOrder ==
    \A s \in Starters :
        /\ Cardinality(Emitted("copy:start", s)) <= 1
        /\ Cardinality(Emitted("copy:complete", s)) <= 1
        /\ \A p \in Emitted("copy:progress", s) :
                \E k \in Emitted("copy:start", s) : k < p
        /\ \A c \in Emitted("copy:complete", s) :
                /\ \E k \in Emitted("copy:start", s) : k < c
                /\ \A p \in Emitted("copy:progress", s) : p < c
        /\ (app.spc[s] = "returned" /\ Emitted("copy:start", s) # {})
                => Cardinality(Emitted("copy:complete", s)) = 1

\* a batch that was cancelled through CancelCopy while in flight has emitted
\* start, progress and complete, and its call has returned
C36_Witness ==
    \E s \in Starters :
        /\ app.spc[s] = "returned"
        /\ app.sctx[s] \in app.ctxDone
        /\ Emitted("copy:progress", s) # {}
        /\ \E k \in Emitted("copy:start", s), x \in Emitted("copy:cancelled", 0),
              c \in Emitted("copy:complete", s) : k < x /\ x < c

\* C37: whenever a batch is in flight, a CancelCopy call fires the
\* cancellation signal of that batch: a call that returns at its nil test, or
\* that invokes the cancel function, leaves the context of every batch in
\* flight at that moment done.
C37_CancelReachesBatch ==
    [][\A s \in Starters :
            (/\ BatchInFlight(s)
             /\ \/ app'.cancelCalls # app.cancelCalls /\ app'.cpc = "idle"
                \/ app.cpc = "call" /\ app'.cpc # "call")
                => app.sctx[s] \in app'.ctxDone]_vars

\* C38: CancelCopy never invokes a nil cancel function.
C38_NeverCallsNil == ~app.panicked

\* C39: an UpdateConfig call with a configuration that has no groups and no
\* source or no destination returns an error and leaves the current configuration and
\* every Config value as they were; a call with a valid one returns nil and
\* makes current a new Config equal to the argument with Workers brought
\* into 1..50.
C39_UpdateConfig ==
    [][app'.updates # app.updates =>
        LET cfg == app'.uarg
            valid == cfg.Groups > 0 \/ (cfg.Source # "" /\ cfg.Destination # "")
            workers == CHOOSE w \in 1..50 :
                          \A v \in 1..50 :
                              (IF w < cfg.Workers THEN cfg.Workers - w ELSE w - cfg.Workers)
                                  <= (IF v < cfg.Workers THEN cfg.Workers - v ELSE v - cfg.Workers)
        IN  IF valid
            THEN /\ app'.uret = "nil"
                 /\ app'.config \notin DOMAIN app.cfgs
                 /\ app'.cfgs[app'.config] = [cfg EXCEPT !.Workers = workers]
                 /\ \A k \in DOMAIN app.cfgs : app'.cfgs[k] = app.cfgs[k]
            ELSE /\ app'.uret # "nil"
                 /\ app'.config = app.config
                 /\ app'.cfgs = app.cfgs]_vars

\* a rejected UpdateConfig call has returned and the configuration loaded at
\* startup is still current
C39_Witness ==
    /\ app.updates > 0
    /\ app.uret # "nil"
    /\ app.uarg.Destination = ""
    /\ app.uarg.Groups = 0
    /\ app.cfgs[app.config] = LoadedConfig

\* C40: a StartCopy call made before any ScanFiles call returns Success=false
\* with "Please scan files first" and changes nothing else: no batch is
\* dispatched, no event emitted, the configuration (Overwrite included) and
\* the cancel function stay as they were.
C40_StartBeforeScan ==
    [][\A s \in Starters :
            (app.scans = 0 /\ app.spc[s] = "idle" /\ app'.spc[s] # "idle")
                => app' = [app EXCEPT !.spc[s] = "returned",
                                      !.sret[s] = <<FALSE, "Please scan files first">>]]_vars

\* a StartCopy call made before any ScanFiles call, after an accepted
\* UpdateConfig, has returned
C40_Witness ==
    \E s \in Starters :
        /\ app.scans = 0
        /\ app.uret = "nil"
        /\ app.sret[s] = <<FALSE, "Please scan files first">>
        /\ app.spc[s] = "returned"

====
